---- MODULE Spec2Model ----
(***************************************************************************)
(* A model of the SQL type system of dbt-xdbc (crates/dbt-xdbc/src/sql/    *)
(* types.rs): the recursive-descent parser of SQL type strings, the        *)
(* dialect-aware renderer and the Arrow-field metadata bridge; of the      *)
(* counting semaphore (crates/dbt-xdbc/src/semaphore.rs), one step per     *)
(* atomic operation of each thread; and of the builder methods of          *)
(* QueryCtx (crates/dbt-xdbc/src/query_ctx.rs).                            *)
(*                                                                         *)
(* Strings are TLA+ strings; a character is a string of length one.  The   *)
(* value None of an Option is the empty sequence and Some(v) the sequence  *)
(* <<v>>.  A Result is a record with a field ok; an Err carries err.       *)
(***************************************************************************)
EXTENDS Integers, Sequences, FiniteSets, TLC

VARIABLES
    op,       \* the public operation called last ("idle" before any call)
    backend,  \* the Backend the call was made with
    arg,      \* the argument of the call: a string, a SqlType or a Field
    shape,    \* how the argument was put together (a record; read by the properties only)
    ret,      \* what the call returned
    sem,      \* the Semaphore: max and the counter a of its AtomicSemaphoreBase
    thread,   \* of each thread: where it is in its Semaphore call and what it holds
    spurious, \* how many spurious failures of compare_exchange_weak and wake-ups happened
    ctx       \* the QueryCtx at the end of the chain of with_ calls

vars == <<op, backend, arg, shape, ret, sem, thread, spurious, ctx>>

\* No Semaphore and no QueryCtx: the state of both while the type system is called.
NoSemaphore == sem = <<>> /\ thread = <<>> /\ spurious = <<>>
NoQueryCtx == ctx = <<>>

None == <<>>
Some(v) == <<v>>
IsSome(o) == o # <<>>
Unwrap(o) == o[1]

(***************************************************************************)
(* Characters and strings                                                  *)
(***************************************************************************)
CharAt(s, i) == SubSeq(s, i, i)
StrFrom(s, i) == SubSeq(s, i, Len(s))

LowerLetters == "abcdefghijklmnopqrstuvwxyz"
UpperLetters == "ABCDEFGHIJKLMNOPQRSTUVWXYZ"
Digits == "0123456789"

AsciiUpperMap ==
    [c \in {CharAt(LowerLetters, i) : i \in 1..26} |->
        CharAt(UpperLetters, CHOOSE i \in 1..26 : CharAt(LowerLetters, i) = c)]
AsciiLowerMap ==
    [c \in {CharAt(UpperLetters, i) : i \in 1..26} |->
        CharAt(LowerLetters, CHOOSE i \in 1..26 : CharAt(UpperLetters, i) = c)]
DigitMap ==
    [c \in {CharAt(Digits, i) : i \in 1..10} |->
        (CHOOSE i \in 1..10 : CharAt(Digits, i) = c) - 1]

to_ascii_uppercase(c) == IF c \in DOMAIN AsciiUpperMap THEN AsciiUpperMap[c] ELSE c
to_ascii_lowercase(c) == IF c \in DOMAIN AsciiLowerMap THEN AsciiLowerMap[c] ELSE c

\* str::eq_ignore_ascii_case: same length and the same characters up to ASCII case.
eq_ignore_ascii_case(a, b) ==
    /\ Len(a) = Len(b)
    /\ \A i \in 1..Len(a) : to_ascii_uppercase(CharAt(a, i)) = to_ascii_uppercase(CharAt(b, i))

eqi_exact(a, b) == a = b

eqi(a, b) == eq_ignore_ascii_case(a, b)

\* str::replace(from, to) for a two-character `from`, scanning left to right.
RECURSIVE Replace2(_, _, _)
Replace2(s, from, to) ==
    IF Len(s) < 2 THEN s
    ELSE IF SubSeq(s, 1, 2) = from THEN to \o Replace2(StrFrom(s, 3), from, to)
    ELSE CharAt(s, 1) \o Replace2(StrFrom(s, 2), from, to)

(***************************************************************************)
(* Backends                                                                *)
(***************************************************************************)
Backends ==
    {"Postgres", "Redshift", "RedshiftODBC", "Snowflake", "BigQuery",
     "Databricks", "DatabricksODBC", "Salesforce", "Generic"}
\* the backends the tests of types.rs run on
TestBackends ==
    {"Postgres", "Snowflake", "BigQuery", "Databricks", "DatabricksODBC",
     "RedshiftODBC", "Generic"}
PostgresLike == {"Postgres", "Redshift", "RedshiftODBC"}
DatabricksLike == {"Databricks", "DatabricksODBC"}

(***************************************************************************)
(* Tokenizer                                                               *)
(***************************************************************************)
Word(w) == <<"Word", w>>
LParen == <<"LParen", "(">>
RParen == <<"RParen", ")">>
LBracket == <<"LBracket", "[">>
RBracket == <<"RBracket", "]">>
LAngle == <<"LAngle", "<">>
RAngle == <<"RAngle", ">">>
Comma == <<"Comma", ",">>

IsWord(tok) == tok[1] = "Word"
PunctuationChars == {"(", ")", "[", "]", "<", ">", ","}
\* A TLA+ string literal cannot hold the backtick: "#" stands for it throughout.
Backtick == "#"
DoubleQuote == "\""
SingleQuote == "'"
QuoteChars == {DoubleQuote, Backtick, SingleQuote}
IsWhitespace(c) == c = " "

PunctuationToken(c) ==
    CASE c = "(" -> LParen
      [] c = ")" -> RParen
      [] c = "[" -> LBracket
      [] c = "]" -> RBracket
      [] c = "<" -> LAngle
      [] c = ">" -> RAngle
      [] c = "," -> Comma

\* Token equality: words compare ignoring ASCII case, punctuation by kind.
TokenEq(a, b) ==
    /\ a[1] = b[1]
    /\ IsWord(a) => eq_ignore_ascii_case(a[2], b[2])

\* Display of a token: the source text of the token.
TokenDisplay(tok) == tok[2]

\* The end (an index of s) of the quoted run that starts at i with quote q:
\* a doubled quote is an escape; an unterminated run ends with the input.
RECURSIVE QuotedEnd(_, _, _)
QuotedEnd(s, i, q) ==
    IF i > Len(s) THEN Len(s)
    ELSE IF CharAt(s, i) = q
         THEN IF i < Len(s) /\ CharAt(s, i + 1) = q THEN QuotedEnd(s, i + 2, q) ELSE i
         ELSE QuotedEnd(s, i + 1, q)

\* The end of the maximal run of word characters that starts at i.
RECURSIVE WordEnd(_, _)
WordEnd(s, i) ==
    IF i >= Len(s) THEN Len(s)
    ELSE IF IsWhitespace(CharAt(s, i + 1)) \/ CharAt(s, i + 1) \in PunctuationChars THEN i
    ELSE WordEnd(s, i + 1)

\* All the tokens of s from index i on, in order.
RECURSIVE TokensFrom(_, _)
TokensFrom(s, i) ==
    IF i > Len(s) THEN <<>>
    ELSE LET c == CharAt(s, i) IN
         IF IsWhitespace(c) THEN TokensFrom(s, i + 1)
         ELSE IF c \in PunctuationChars THEN <<PunctuationToken(c)>> \o TokensFrom(s, i + 1)
         ELSE LET e == IF c \in QuoteChars THEN QuotedEnd(s, i + 1, c) ELSE WordEnd(s, i)
              IN <<Word(SubSeq(s, i, e))>> \o TokensFrom(s, e + 1)

Tokenize(s) == TokensFrom(s, 1)

(***************************************************************************)
(* Identifiers (sql/ident.rs)                                              *)
(***************************************************************************)
Plain(text) == <<"Plain", text>>
Unquoted(quote, text) == <<"Unquoted", quote, text>>

canonical_quote(b) == IF b \in {"BigQuery"} \cup DatabricksLike THEN Backtick ELSE DoubleQuote

\* s with every occurrence of the character q doubled
RECURSIVE DoubleEach(_, _)
DoubleEach(s, q) ==
    IF Len(s) = 0 THEN s
    ELSE (IF CharAt(s, 1) = q THEN q \o q ELSE CharAt(s, 1)) \o DoubleEach(StrFrom(s, 2), q)

\* Ident::display(backend): a plain identifier as it is, a quoted one in the
\* backend's canonical quote with the embedded quote characters doubled.
IdentDisplay(ident, b) ==
    IF ident[1] = "Plain" THEN ident[2]
    ELSE LET q == canonical_quote(b) IN q \o DoubleEach(ident[3], q) \o q

(***************************************************************************)
(* DateTimeField and TimeZoneSpec                                          *)
(***************************************************************************)
DateTimeFields ==
    {"Year", "Month", "Day", "Hour", "Minute", "Second",
     "Millisecond", "Microsecond", "Nanosecond"}

\* impl fmt::Display for DateTimeField
DateTimeFieldDisplay(f) ==
    CASE f = "Year" -> "YEAR"
      [] f = "Month" -> "MONTH"
      [] f = "Day" -> "DAY"
      [] f = "Hour" -> "HOUR"
      [] f = "Minute" -> "MINUTE"
      [] f = "Second" -> "SECOND"
      [] f = "Millisecond" -> "MILLISECOND"
      [] f = "Microsecond" -> "MICROSECOND"
      [] f = "Nanosecond" -> "NANOSECOND"

DateTimeField_write_without_precision(f, b) ==
    IF b \in PostgresLike /\ f \in {"Millisecond", "Microsecond", "Nanosecond"}
    THEN "SECOND"
    ELSE DateTimeFieldDisplay(f)

\* DateTimeField::write
DateTimeField_write(f, b) ==
    IF b \in PostgresLike
    THEN CASE f = "Millisecond" -> "SECOND(3)"
           [] f = "Microsecond" -> "SECOND(6)"
           [] f = "Nanosecond" -> "SECOND(9)"
           [] OTHER -> DateTimeFieldDisplay(f)
    ELSE DateTimeFieldDisplay(f)

from_precision_shifted(p) ==
    IF p <= 3 THEN "Second"
    ELSE IF p <= 6 THEN "Millisecond"
    ELSE IF p <= 9 THEN "Microsecond"
    ELSE "Nanosecond"

\* DateTimeField::from_precision
from_precision(p) ==
    IF p <= 2 THEN "Second"
    ELSE IF p <= 5 THEN "Millisecond"
    ELSE IF p <= 8 THEN "Microsecond"
    ELSE "Nanosecond"

TimeZoneSpecs == {"Local", "With", "Without", "Unspecified"}

\* TimeZoneSpec::write_with_leading_space
write_with_leading_space(tz, b) ==
    IF b = "BigQuery" /\ tz \in {"Without", "Unspecified"} THEN ""
    ELSE IF b \in PostgresLike /\ tz = "Without" THEN ""
    ELSE CASE tz = "Local" -> " WITH LOCAL TIME ZONE"
           [] tz = "With" -> " WITH TIME ZONE"
           [] tz = "Without" -> " WITHOUT TIME ZONE"
           [] tz = "Unspecified" -> ""

write_single_token_suffix_long_form(tz, b) == write_with_leading_space(tz, b)

\* TimeZoneSpec::write_single_token_suffix (the debug assertions only report)
write_single_token_suffix(tz, b) ==
    IF b = "BigQuery" THEN ""
    ELSE IF b \in PostgresLike THEN (IF tz \in {"Local", "With"} THEN "TZ" ELSE "")
    ELSE IF b \in DatabricksLike THEN (IF tz = "Without" THEN "_NTZ" ELSE "")
    ELSE CASE tz = "Local" -> "_LTZ"
           [] tz = "With" -> "_TZ"
           [] tz = "Without" -> "_NTZ"
           [] tz = "Unspecified" -> ""

\* TimeZoneSpec::is_with_time_zone: the value, or the panic of debug_assert!(false)
\* in a build that has debug assertions
is_with_time_zone(tz, b, debug_assertions) ==
    IF b = "Databricks" /\ tz \in {"Unspecified", "With", "Local"}
    THEN [panic |-> FALSE, value |-> TRUE]
    ELSE IF b = "Snowflake" /\ tz = "Unspecified"
    THEN IF debug_assertions
         THEN [panic |-> TRUE, what |-> "debug_assert"]
         ELSE [panic |-> FALSE, value |-> FALSE]
    ELSE IF tz \in {"With", "Local"} THEN [panic |-> FALSE, value |-> TRUE]
    ELSE [panic |-> FALSE, value |-> FALSE]

(***************************************************************************)
(* SqlType                                                                 *)
(***************************************************************************)
UnitTags ==
    {"Boolean", "TinyInt", "SmallInt", "Integer", "BigInt", "Real", "Double",
     "Text", "Clob", "Blob", "Binary", "Date", "DateTime", "Json", "Jsonb",
     "Geometry", "Geography", "Variant", "Void"}
Unit(tag) == [tag |-> tag]
Boolean == Unit("Boolean")
TinyInt == Unit("TinyInt")
SmallInt == Unit("SmallInt")
Integer == Unit("Integer")
BigInt == Unit("BigInt")
Real == Unit("Real")
Double == Unit("Double")
Text == Unit("Text")
Clob == Unit("Clob")
Blob == Unit("Blob")
Binary == Unit("Binary")
Date == Unit("Date")
DateTime == Unit("DateTime")
Json == Unit("Json")
Jsonb == Unit("Jsonb")
Geometry == Unit("Geometry")
Geography == Unit("Geography")
Variant == Unit("Variant")
Void == Unit("Void")
Float(precision) == [tag |-> "Float", precision |-> precision]
\* ps is None or Some(<<precision, scale>>), scale itself an Option
Numeric(ps) == [tag |-> "Numeric", ps |-> ps]
BigNumeric(ps) == [tag |-> "BigNumeric", ps |-> ps]
Char(len) == [tag |-> "Char", len |-> len]
Varchar(len) == [tag |-> "Varchar", len |-> len]
Time(precision, tz) == [tag |-> "Time", precision |-> precision, time_zone_spec |-> tz]
Timestamp(precision, tz) ==
    [tag |-> "Timestamp", precision |-> precision, time_zone_spec |-> tz]
\* qualifier is None or Some(<<start, end>>), end itself an Option
Interval(qualifier) == [tag |-> "Interval", qualifier |-> qualifier]
Array(inner) == [tag |-> "Array", inner |-> inner]
\* fields is None or Some(a sequence of <<ident, type, nullable>>)
Struct(fields) == [tag |-> "Struct", fields |-> fields]
\* kv is None or Some(<<key type, value type>>)
Map(kv) == [tag |-> "Map", kv |-> kv]
Other(s) == [tag |-> "Other", s |-> s]

(***************************************************************************)
(* Renderer: SqlType::write and SqlType::to_string                         *)
(***************************************************************************)
RECURSIVE write(_, _)

\* "(p)" for Some(p) and "" for None
FmtPrecision(precision) ==
    IF IsSome(precision) THEN "(" \o ToString(Unwrap(precision)) \o ")" ELSE ""

\* name, name(p) or name(p, s): the three arms of a NUMERIC-like type
FmtPrecisionAndScale(name, ps) ==
    IF ~IsSome(ps) THEN name
    ELSE LET p == Unwrap(ps)[1]
             sc == Unwrap(ps)[2]
         IN IF IsSome(sc)
            THEN name \o "(" \o ToString(p) \o ", " \o ToString(Unwrap(sc)) \o ")"
            ELSE name \o "(" \o ToString(p) \o ")"

\* The arms of SqlType::write for BigQuery; None when none of them matches.
write_bigquery(b, t) ==
    IF b # "BigQuery" THEN None
    ELSE CASE t.tag = "Boolean" -> Some("BOOL")
           [] t.tag \in {"TinyInt", "SmallInt", "Integer", "BigInt"} -> Some("INT64")
           [] t.tag \in {"Real", "Float", "Double"} -> Some("FLOAT64")
           [] t.tag \in {"Char", "Varchar", "Text", "Clob"} -> Some("STRING")
           [] t.tag \in {"Blob", "Binary"} -> Some("BYTES")
           [] t.tag = "Time" ->
                Some("TIME" \o write_with_leading_space(t.time_zone_spec, b))
           [] t.tag = "Timestamp" ->
                Some("TIMESTAMP" \o write_with_leading_space(t.time_zone_spec, b))
           [] OTHER -> None

\* The arms of SqlType::write for Snowflake.
write_snowflake(b, t) ==
    IF b # "Snowflake" THEN None
    ELSE CASE t.tag = "Float" -> Some("FLOAT")
           [] t.tag \in {"Numeric", "BigNumeric"} -> Some(FmtPrecisionAndScale("NUMBER", t.ps))
           [] t.tag = "Clob" -> Some("TEXT")
           [] t.tag = "Blob" -> Some("BINARY")
           [] t.tag = "Time" ->
                Some("TIME" \o FmtPrecision(t.precision)
                     \o (IF t.time_zone_spec \in {"Unspecified", "Without"} THEN ""
                         ELSE write_with_leading_space(t.time_zone_spec, b)))
           [] t.tag = "Timestamp" ->
                Some("TIMESTAMP" \o write_single_token_suffix(t.time_zone_spec, b)
                     \o FmtPrecision(t.precision))
           [] t.tag = "DateTime" -> Some("TIMESTAMP_NTZ")
           [] OTHER -> None

write_postgres_timestamp_suffix_first(b, t) ==
    "TIMESTAMP" \o write_single_token_suffix(t.time_zone_spec, b) \o FmtPrecision(t.precision)

\* The Timestamp arm of SqlType::write for Postgres and Redshift.
write_postgres_timestamp(b, t) ==
    IF IsSome(t.precision)
    THEN "TIMESTAMP(" \o ToString(Unwrap(t.precision)) \o ")"
         \o write_with_leading_space(t.time_zone_spec, b)
    ELSE "TIMESTAMP" \o write_single_token_suffix(t.time_zone_spec, b)

\* The arms of SqlType::write for Postgres, Redshift and RedshiftODBC.
write_postgres(b, t) ==
    IF b \notin PostgresLike THEN None
    ELSE CASE t.tag = "TinyInt" -> Some("SMALLINT")
           [] t.tag \in {"Binary", "Blob"} -> Some("BYTEA")
           [] t.tag = "DateTime" -> Some("TIMESTAMP")
           [] t.tag = "Timestamp" -> Some(write_postgres_timestamp(b, t))
           [] t.tag = "Float" -> Some("REAL")
           [] t.tag = "Clob" -> Some("TEXT")
           [] t.tag = "Array" /\ IsSome(t.inner) -> Some(write(b, Unwrap(t.inner)) \o "[]")
           [] OTHER -> None

\* The arms of SqlType::write for Databricks and DatabricksODBC.
write_databricks(b, t) ==
    IF b \notin DatabricksLike THEN None
    ELSE CASE t.tag \in {"Binary", "Blob"} -> Some("BINARY")
           [] t.tag \in {"Clob", "Text", "Varchar"} -> Some("STRING")
           [] t.tag \in {"Numeric", "BigNumeric"} -> Some(FmtPrecisionAndScale("DECIMAL", t.ps))
           [] t.tag \in {"Real", "Float"} -> Some("FLOAT")
           [] t.tag = "Double" -> Some("DOUBLE")
           [] t.tag = "DateTime" -> Some("TIMESTAMP_NTZ")
           [] t.tag = "Timestamp" ->
                Some("TIMESTAMP" \o write_single_token_suffix(t.time_zone_spec, b))
           [] OTHER -> None

\* One field of a struct: its name, its type and NOT NULL when it is not nullable.
write_struct_field(b, field) ==
    IdentDisplay(field[1], b) \o " " \o write(b, field[2])
    \o (IF ~field[3] THEN " NOT NULL" ELSE "")

\* The loop over the fields of a struct, from field i on.
RECURSIVE write_struct_fields(_, _, _)
write_struct_fields(b, fields, i) ==
    IF i > Len(fields) THEN ""
    ELSE (IF i > 1 THEN ", " ELSE "") \o write_struct_field(b, fields[i])
         \o write_struct_fields(b, fields, i + 1)

\* The Interval arm of SqlType::write.
write_interval(b, t) ==
    IF ~IsSome(t.qualifier) THEN "INTERVAL"
    ELSE LET start == Unwrap(t.qualifier)[1]
             end == Unwrap(t.qualifier)[2]
         IN "INTERVAL "
            \o (IF IsSome(end)
                THEN DateTimeFieldDisplay(start) \o " TO " \o DateTimeField_write(Unwrap(end), b)
                ELSE DateTimeField_write(start, b))

\* The generic arms of SqlType::write, which every backend falls back to.
write_generic(b, t) ==
    CASE t.tag = "Boolean" -> "BOOLEAN"
      [] t.tag = "TinyInt" -> "TINYINT"
      [] t.tag = "SmallInt" -> "SMALLINT"
      [] t.tag = "Integer" -> "INT"
      [] t.tag = "BigInt" -> "BIGINT"
      [] t.tag = "Real" -> "REAL"
      [] t.tag = "Float" -> "FLOAT" \o FmtPrecision(t.precision)
      [] t.tag = "Double" -> "DOUBLE PRECISION"
      [] t.tag = "Numeric" -> FmtPrecisionAndScale("NUMERIC", t.ps)
      [] t.tag = "BigNumeric" -> FmtPrecisionAndScale("BIGNUMERIC", t.ps)
      [] t.tag = "Char" ->
           "CHAR" \o (IF IsSome(t.len) /\ Unwrap(t.len) > 0 THEN FmtPrecision(t.len) ELSE "")
      [] t.tag = "Varchar" ->
           "VARCHAR" \o (IF IsSome(t.len) /\ Unwrap(t.len) > 0 THEN FmtPrecision(t.len) ELSE "")
      [] t.tag = "Text" -> "TEXT"
      [] t.tag = "Clob" -> "CLOB"
      [] t.tag = "Blob" -> "BLOB"
      [] t.tag = "Binary" -> "BINARY"
      [] t.tag = "Date" -> "DATE"
      [] t.tag = "Time" ->
           "TIME" \o FmtPrecision(t.precision) \o write_with_leading_space(t.time_zone_spec, b)
      [] t.tag = "DateTime" -> "DATETIME"
      [] t.tag = "Timestamp" ->
           "TIMESTAMP" \o FmtPrecision(t.precision)
           \o write_with_leading_space(t.time_zone_spec, b)
      [] t.tag = "Interval" -> write_interval(b, t)
      [] t.tag = "Json" -> "JSON"
      [] t.tag = "Jsonb" -> "JSONB"
      [] t.tag = "Geometry" -> "GEOMETRY"
      [] t.tag = "Geography" -> "GEOGRAPHY"
      [] t.tag = "Array" ->
           IF IsSome(t.inner) THEN "ARRAY<" \o write(b, Unwrap(t.inner)) \o ">" ELSE "ARRAY"
      [] t.tag = "Struct" ->
           IF ~IsSome(t.fields) THEN "STRUCT"
           ELSE (IF b \in PostgresLike THEN "(" ELSE "STRUCT<")
                \o write_struct_fields(b, Unwrap(t.fields), 1)
                \o (IF b \in PostgresLike THEN ")" ELSE ">")
      [] t.tag = "Map" ->
           IF IsSome(t.kv)
           THEN "MAP<" \o write(b, Unwrap(t.kv)[1]) \o ", " \o write(b, Unwrap(t.kv)[2]) \o ">"
           ELSE "MAP"
      [] t.tag = "Variant" -> "VARIANT"
      [] t.tag = "Void" -> "VOID"
      [] t.tag = "Other" -> t.s

\* SqlType::write: the first arm that matches, the backend's own arms first.
write(b, t) ==
    LET bq == write_bigquery(b, t)
        sf == write_snowflake(b, t)
        pg == write_postgres(b, t)
        dbx == write_databricks(b, t)
    IN CASE IsSome(bq) -> Unwrap(bq)
         [] IsSome(sf) -> Unwrap(sf)
         [] IsSome(pg) -> Unwrap(pg)
         [] IsSome(dbx) -> Unwrap(dbx)
         [] OTHER -> write_generic(b, t)

\* SqlType::to_string
to_string(t, b) == write(b, t)

(***************************************************************************)
(* Parser: the token operations                                            *)
(*                                                                         *)
(* The parser's state is the token sequence toks of the input and pos, the *)
(* index of the next token; an operation returns the new pos.              *)
(***************************************************************************)
Ok(v, pos) == [ok |-> TRUE, val |-> v, pos |-> pos]
Err(e) == [ok |-> FALSE, err |-> e]
UnexpectedEndOfInput == <<"UnexpectedEndOfInput">>
Unexpected(tok) == <<"Unexpected", tok>>
ParseIntError == <<"ParseIntError">>
UnclosedQuote(c) == <<"UnclosedQuote", c>>
ExpectedDateTimeField == <<"ExpectedDateTimeField">>

\* Parser::next
next(toks, pos) ==
    IF pos > Len(toks) THEN Err(UnexpectedEndOfInput) ELSE Ok(toks[pos], pos + 1)

\* The ? of Rust on a Result: the error of r, or the rest of the function on r.
Try(r, rest(_)) == IF r.ok THEN rest(r) ELSE r

\* Parser::expect
expect(toks, pos, expected) ==
    Try(next(toks, pos), LAMBDA tok :
        IF TokenEq(tok.val, expected) THEN Ok(<<>>, tok.pos) ELSE Err(Unexpected(tok.val)))

\* Parser::match_ as a test: whether the next token is there and equals pat.
\* A match consumes the token (the caller continues at pos + 1).
match_(toks, pos, pat) == pos <= Len(toks) /\ TokenEq(toks[pos], pat)

\* Parser::match_word
match_word(toks, pos, word) == match_(toks, pos, Word(word))

\* The position after an optional word: past it when it is there.
AfterWord(toks, pos, word) == IF match_word(toks, pos, word) THEN pos + 1 ELSE pos

\* The largest value of the integer types the parser reads.  (A usize holds
\* more than the model's integers do: the model reads lengths up to 2^31 - 1.)
IntMax(ty) == CASE ty = "u8" -> 255 [] ty = "i8" -> 127 [] ty = "usize" -> 2147483647
IntMin(ty) == CASE ty = "u8" -> 0 [] ty = "i8" -> -128 [] ty = "usize" -> 0

\* The value of the digits of s after acc, or -1 when a character is no digit
\* or the value passes max.
RECURSIVE DigitsValue(_, _, _)
DigitsValue(s, acc, max) ==
    IF Len(s) = 0 THEN acc
    ELSE LET c == CharAt(s, 1) IN
         IF c \notin DOMAIN DigitMap THEN -1
         ELSE IF acc > (max - DigitMap[c]) \div 10 THEN -1
         ELSE DigitsValue(StrFrom(s, 2), acc * 10 + DigitMap[c], max)

\* str::parse::<T>() of an integer type: an optional sign, then digits, in range.
parse_int(w, ty) ==
    LET signed == IntMin(ty) < 0
        first == CharAt(w, 1)
        neg == signed /\ first = "-"
        body == IF first = "+" \/ neg THEN StrFrom(w, 2) ELSE w
        v == DigitsValue(body, 0, IF neg THEN -IntMin(ty) ELSE IntMax(ty))
    IN IF Len(body) = 0 \/ v < 0 THEN None ELSE Some(IF neg THEN -v ELSE v)

\* Parser::next_int
next_int(toks, pos, ty) ==
    Try(next(toks, pos), LAMBDA tok :
        IF IsWord(tok.val)
        THEN LET value == parse_int(tok.val[2], ty)
             IN IF IsSome(value) THEN Ok(Unwrap(value), tok.pos) ELSE Err(ParseIntError)
        ELSE Err(Unexpected(tok.val)))

(***************************************************************************)
(* Parser: the grammar productions                                         *)
(***************************************************************************)
\* Parser::precision
precision(toks, pos, ty) ==
    IF match_(toks, pos, LParen)
    THEN Try(next_int(toks, pos + 1, ty), LAMBDA value :
         Try(expect(toks, value.pos, RParen), LAMBDA close :
         Ok(Some(value.val), close.pos)))
    ELSE Ok(None, pos)

\* Parser::precision_and_scale: the scale after a comma
scale_after_comma(toks, pos) ==
    IF match_(toks, pos, Comma)
    THEN Try(next_int(toks, pos + 1, "i8"), LAMBDA sc : Ok(Some(sc.val), sc.pos))
    ELSE Ok(None, pos)

\* Parser::precision_and_scale
precision_and_scale(toks, pos) ==
    IF match_(toks, pos, LParen)
    THEN Try(next_int(toks, pos + 1, "u8"), LAMBDA p :
         Try(scale_after_comma(toks, p.pos), LAMBDA scale :
         Try(expect(toks, scale.pos, RParen), LAMBDA close :
         Ok(Some(<<p.val, scale.val>>), close.pos))))
    ELSE Ok(None, pos)

\* Parser::time_zone_spec: TIME ZONE, which every spelling ends with
expect_time_zone(toks, pos, tz) ==
    Try(expect(toks, pos, Word("TIME")), LAMBDA time :
    Try(expect(toks, time.pos, Word("ZONE")), LAMBDA zone :
    Ok(tz, zone.pos)))

\* Parser::time_zone_spec
time_zone_spec(toks, pos) ==
    IF match_word(toks, pos, "WITH")
    THEN IF match_word(toks, pos + 1, "LOCAL")
         THEN expect_time_zone(toks, pos + 2, "Local")
         ELSE expect_time_zone(toks, pos + 1, "With")
    ELSE IF match_word(toks, pos, "WITHOUT")
    THEN expect_time_zone(toks, pos + 1, "Without")
    ELSE Ok("Unspecified", pos)

\* Parser::datetime_field: Some(field) and the token consumed, or None and not.
datetime_field(toks, pos) ==
    IF pos <= Len(toks) /\ IsWord(toks[pos])
    THEN LET hit == {f \in DateTimeFields : eqi(toks[pos][2], DateTimeFieldDisplay(f))}
         IN IF hit = {} THEN Ok(None, pos) ELSE Ok(Some(CHOOSE f \in hit : TRUE), pos + 1)
    ELSE Ok(None, pos)

interval_qualifier_without_end(toks, pos) ==
    Try(datetime_field(toks, pos), LAMBDA start :
        IF IsSome(start.val)
        THEN IF match_word(toks, start.pos, "TO")
             THEN Try(datetime_field(toks, start.pos + 1), LAMBDA end :
                      Ok(Some(<<Unwrap(start.val), end.val>>), end.pos))
             ELSE Ok(Some(<<Unwrap(start.val), None>>), start.pos)
        ELSE Ok(None, pos))

\* Parser::interval_qualifier
interval_qualifier(toks, pos) ==
    Try(datetime_field(toks, pos), LAMBDA start :
        IF IsSome(start.val)
        THEN IF match_word(toks, start.pos, "TO")
             THEN Try(datetime_field(toks, start.pos + 1), LAMBDA end :
                      IF IsSome(end.val)
                      THEN Ok(Some(<<Unwrap(start.val), end.val>>), end.pos)
                      ELSE Err(ExpectedDateTimeField))
             ELSE Ok(Some(<<Unwrap(start.val), None>>), start.pos)
        ELSE Ok(None, pos))

\* Parser::nullable
nullable(toks, pos) ==
    IF match_word(toks, pos, "NOT")
    THEN Try(expect(toks, pos + 1, Word("NULL")), LAMBDA null : Ok(Some(FALSE), null.pos))
    ELSE IF match_word(toks, pos, "NULLABLE") THEN Ok(Some(TRUE), pos + 1)
    ELSE Ok(None, pos)

\* _unescape_quoted_ident
unescape_quoted_ident(word, quote, b) ==
    LET inner == SubSeq(word, 2, Len(word) - 1)
    IN IF b \in PostgresLike /\ quote = DoubleQuote
       THEN Replace2(inner, DoubleQuote \o DoubleQuote, DoubleQuote)
       ELSE IF quote = SingleQuote THEN Replace2(inner, "''", "'")
       ELSE inner

\* word2ident: Some(ident), or the error.
word2ident(word, b) ==
    IF Len(word) = 0 THEN Err(UnexpectedEndOfInput)
    ELSE LET first_byte == CharAt(word, 1)
         IN IF first_byte \in QuoteChars
            THEN IF Len(word) < 2 \/ CharAt(word, Len(word)) # first_byte
                 THEN Err(UnclosedQuote(first_byte))
                 ELSE Ok(Unquoted(first_byte, unescape_quoted_ident(word, first_byte, b)), 0)
            ELSE Ok(Plain(word), 0)

(***************************************************************************)
(* Parser: types                                                           *)
(***************************************************************************)
RECURSIVE parse_unconstrained_type(_, _, _)

\* Parser::parse_constrained_type: val is <<type, Option<bool>>>
parse_constrained_type(b, toks, pos) ==
    Try(parse_unconstrained_type(b, toks, pos), LAMBDA sql_type :
    Try(nullable(toks, sql_type.pos), LAMBDA n :
    Ok(<<sql_type.val, n.val>>, n.pos)))

\* Parser::struct_fields: what follows a field, the fields read so far in fields
RECURSIVE struct_fields_loop(_, _, _, _, _)
struct_fields_after_field(b, toks, pos, terminator, fields) ==
    Try(next(toks, pos), LAMBDA sep :
        IF TokenEq(sep.val, Comma)
        THEN struct_fields_loop(b, toks, sep.pos, terminator, fields)
        ELSE IF TokenEq(sep.val, terminator) THEN Ok(fields, sep.pos)
        ELSE Err(Unexpected(sep.val)))

\* Parser::struct_fields: the loop, with the fields read so far.
struct_fields_loop(b, toks, pos, terminator, fields) ==
    Try(next(toks, pos), LAMBDA tok :
        IF TokenEq(tok.val, terminator) THEN Ok(fields, tok.pos)
        ELSE IF ~IsWord(tok.val) THEN Err(Unexpected(tok.val))
        ELSE Try(word2ident(tok.val[2], b), LAMBDA name :
             Try(parse_constrained_type(b, toks, tok.pos), LAMBDA ty :
             struct_fields_after_field(b, toks, ty.pos, terminator,
                 Append(fields, <<name.val, ty.val[1],
                                  IF IsSome(ty.val[2]) THEN Unwrap(ty.val[2]) ELSE TRUE>>)))))

\* Parser::struct_fields
struct_fields(b, toks, pos, terminator) == struct_fields_loop(b, toks, pos, terminator, <<>>)

\* parse_inner after CHAR, CHARACTER or NCHAR, past the optional VARYING
parse_char_length(toks, pos, varying) ==
    Try(precision(toks, pos, "usize"), LAMBDA len :
        Ok(IF varying THEN Varchar(len.val) ELSE Char(len.val), len.pos))

\* parse_inner after CHAR, CHARACTER or NCHAR
parse_char(toks, pos) ==
    IF match_word(toks, pos, "LARGE")
    THEN Try(expect(toks, pos + 1, Word("OBJECT")), LAMBDA object : Ok(Clob, object.pos))
    ELSE parse_char_length(toks, AfterWord(toks, pos, "VARYING"),
                           match_word(toks, pos, "VARYING"))

\* parse_inner after NATIONAL
parse_national(toks, pos) ==
    Try(expect(toks, pos, Word("CHAR")), LAMBDA char :
        parse_char_length(toks, AfterWord(toks, char.pos, "VARYING"),
                          match_word(toks, char.pos, "VARYING")))

\* parse_inner after BINARY
parse_binary(toks, pos) ==
    IF match_word(toks, pos, "LARGE")
    THEN Try(expect(toks, pos + 1, Word("OBJECT")), LAMBDA object : Ok(Blob, object.pos))
    ELSE Ok(Binary, pos)

parse_time_keep_unspecified(toks, pos) ==
    Try(precision(toks, pos, "u8"), LAMBDA p :
    Try(time_zone_spec(toks, p.pos), LAMBDA tz :
    Ok(Time(p.val, tz.val), tz.pos)))

\* parse_inner after TIME
parse_time(toks, pos) ==
    Try(precision(toks, pos, "u8"), LAMBDA p :
    Try(time_zone_spec(toks, p.pos), LAMBDA tz :
    Ok(Time(p.val, IF tz.val = "Unspecified" THEN "Without" ELSE tz.val), tz.pos)))

\* parse_inner after TIMESTAMP
parse_timestamp(toks, pos) ==
    Try(precision(toks, pos, "u8"), LAMBDA p :
    Try(time_zone_spec(toks, p.pos), LAMBDA tz :
    Ok(Timestamp(p.val, tz.val), tz.pos)))

\* parse_inner after TIMESTAMP_NTZ or TIMESTAMP_TZ
parse_timestamp_suffixed(toks, pos, tz) ==
    Try(precision(toks, pos, "u8"), LAMBDA p : Ok(Timestamp(p.val, tz), p.pos))

\* parse_inner after DATETIME
parse_datetime(b, toks, pos) ==
    Try(precision(toks, pos, "u8"), LAMBDA p :
        Ok(IF b = "Snowflake" THEN Timestamp(p.val, "Without") ELSE DateTime, p.pos))

\* parse_inner after INTERVAL and a qualifier start [TO end] that ends in SECOND:
\* a precision replaces the SECOND by the unit of that precision.
parse_interval_second(toks, pos, start, end) ==
    Try(precision(toks, pos, "u8"), LAMBDA p :
        IF ~IsSome(p.val) THEN Ok(Interval(Some(<<start, end>>)), p.pos)
        ELSE IF IsSome(end)
        THEN Ok(Interval(Some(<<start, Some(from_precision(Unwrap(p.val)))>>)), p.pos)
        ELSE Ok(Interval(Some(<<from_precision(Unwrap(p.val)), None>>)), p.pos))

\* parse_inner after INTERVAL and no qualifier
parse_interval_unqualified(toks, pos) ==
    Try(precision(toks, pos, "u8"), LAMBDA p :
        Ok(Interval(IF IsSome(p.val)
                    THEN Some(<<from_precision(Unwrap(p.val)), None>>)
                    ELSE None),
           p.pos))

\* parse_inner after INTERVAL
parse_interval(toks, pos) ==
    Try(interval_qualifier(toks, pos), LAMBDA q :
        IF IsSome(q.val)
        THEN IF (IF IsSome(Unwrap(q.val)[2]) THEN Unwrap(Unwrap(q.val)[2])
                 ELSE Unwrap(q.val)[1]) = "Second"
             THEN parse_interval_second(toks, q.pos, Unwrap(q.val)[1], Unwrap(q.val)[2])
             ELSE Ok(Interval(q.val), q.pos)
        ELSE parse_interval_unqualified(toks, q.pos))

\* parse_inner after ARRAY
parse_array(b, toks, pos) ==
    IF match_(toks, pos, LAngle)
    THEN Try(parse_unconstrained_type(b, toks, pos + 1), LAMBDA inner :
         Try(expect(toks, inner.pos, RAngle), LAMBDA close :
         Ok(Array(Some(inner.val)), close.pos)))
    ELSE Ok(Array(None), pos)

\* parse_inner after STRUCT
parse_struct(b, toks, pos) ==
    IF match_(toks, pos, LAngle)
    THEN Try(struct_fields(b, toks, pos + 1, RAngle), LAMBDA fields :
             Ok(Struct(Some(fields.val)), fields.pos))
    ELSE Ok(Struct(None), pos)

\* parse_inner after MAP
parse_map(b, toks, pos) ==
    IF match_(toks, pos, LAngle)
    THEN Try(parse_unconstrained_type(b, toks, pos + 1), LAMBDA key :
         Try(expect(toks, key.pos, Comma), LAMBDA comma :
         Try(parse_unconstrained_type(b, toks, comma.pos), LAMBDA value :
         Try(expect(toks, value.pos, RAngle), LAMBDA close :
         Ok(Map(Some(<<key.val, value.val>>)), close.pos)))))
    ELSE Ok(Map(None), pos)

RECURSIVE parse_other_stop_at_not_only(_, _, _)
parse_other_stop_at_not_only(toks, pos, other) ==
    IF pos > Len(toks) \/ TokenEq(toks[pos], Word("NOT"))
    THEN Ok(Other(other), pos)
    ELSE parse_other_stop_at_not_only(toks, pos + 1, other \o " " \o TokenDisplay(toks[pos]))

\* parse_inner for a word that is no keyword: gather the tokens before NOT or NULL
RECURSIVE parse_other(_, _, _)
parse_other(toks, pos, other) ==
    IF pos > Len(toks) \/ TokenEq(toks[pos], Word("NOT")) \/ TokenEq(toks[pos], Word("NULL"))
    THEN Ok(Other(other), pos)
    ELSE parse_other(toks, pos + 1, other \o " " \o TokenDisplay(toks[pos]))

\* parse_inner: the dispatch on a word
parse_word(b, toks, pos, w) ==
    CASE eqi(w, "BOOLEAN") \/ eqi(w, "BOOL") -> Ok(Boolean, pos)
      [] eqi(w, "TINYINT") \/ eqi(w, "BYTEINT") -> Ok(TinyInt, pos)
      [] eqi(w, "SMALLINT") \/ eqi(w, "INT2") \/ eqi(w, "SMALLSERIAL") \/ eqi(w, "SERIAL2") ->
           Ok(SmallInt, pos)
      [] eqi(w, "INTEGER") \/ eqi(w, "INT") \/ eqi(w, "INT4") \/ eqi(w, "SERIAL")
           \/ eqi(w, "SERIAL4") -> Ok(Integer, pos)
      [] eqi(w, "BIGINT") \/ eqi(w, "INT64") \/ eqi(w, "INT8") \/ eqi(w, "BIGSERIAL")
           \/ eqi(w, "SERIAL8") -> Ok(BigInt, pos)
      [] eqi(w, "REAL") -> Ok(Real, pos)
      [] eqi(w, "FLOAT") ->
           Try(precision(toks, pos, "u8"), LAMBDA p : Ok(Float(p.val), p.pos))
      [] eqi(w, "FLOAT4") -> Ok(IF b \in PostgresLike THEN Real ELSE Float(None), pos)
      [] eqi(w, "FLOAT8") \/ eqi(w, "FLOAT64") -> Ok(Double, pos)
      [] eqi(w, "DOUBLE") -> Ok(Double, AfterWord(toks, pos, "PRECISION"))
      [] eqi(w, "DECIMAL") \/ eqi(w, "NUMERIC") \/ eqi(w, "NUMBER") ->
           Try(precision_and_scale(toks, pos), LAMBDA ps : Ok(Numeric(ps.val), ps.pos))
      [] eqi(w, "BIGDECIMAL") \/ eqi(w, "BIGNUMERIC") ->
           Try(precision_and_scale(toks, pos), LAMBDA ps : Ok(BigNumeric(ps.val), ps.pos))
      [] eqi(w, "CHAR") \/ eqi(w, "CHARACTER") \/ eqi(w, "NCHAR") -> parse_char(toks, pos)
      [] eqi(w, "VARCHAR") \/ eqi(w, "NVARCHAR") ->
           Try(precision(toks, pos, "usize"), LAMBDA len : Ok(Varchar(len.val), len.pos))
      [] eqi(w, "NATIONAL") -> parse_national(toks, pos)
      [] eqi(w, "STRING") -> Ok(Varchar(None), pos)
      [] eqi(w, "TEXT") -> Ok(Text, pos)
      [] eqi(w, "CLOB") -> Ok(Clob, pos)
      [] eqi(w, "BLOB") -> Ok(Blob, pos)
      [] eqi(w, "BINARY") -> parse_binary(toks, pos)
      [] eqi(w, "VARBINARY") \/ eqi(w, "BYTES") \/ eqi(w, "BYTEA") -> Ok(Binary, pos)
      [] eqi(w, "DATE") -> Ok(Date, pos)
      [] eqi(w, "TIME") -> parse_time(toks, pos)
      [] eqi(w, "TIMETZ") -> Ok(Time(None, "With"), pos)
      [] eqi(w, "TIMESTAMP") -> parse_timestamp(toks, pos)
      [] eqi(w, "TIMESTAMPTZ") -> Ok(Timestamp(None, "With"), pos)
      [] eqi(w, "TIMESTAMP_NTZ") -> parse_timestamp_suffixed(toks, pos, "Without")
      [] eqi(w, "DATETIME") -> parse_datetime(b, toks, pos)
      [] eqi(w, "TIMESTAMP_TZ") -> parse_timestamp_suffixed(toks, pos, "With")
      [] eqi(w, "INTERVAL") -> parse_interval(toks, pos)
      [] eqi(w, "JSON") -> Ok(Json, pos)
      [] eqi(w, "JSONB") -> Ok(Jsonb, pos)
      [] eqi(w, "GEOMETRY") -> Ok(Geometry, pos)
      [] eqi(w, "GEOGRAPHY") -> Ok(Geography, pos)
      [] eqi(w, "ARRAY") -> parse_array(b, toks, pos)
      [] eqi(w, "STRUCT") -> parse_struct(b, toks, pos)
      [] eqi(w, "MAP") -> parse_map(b, toks, pos)
      [] eqi(w, "VARIANT") -> Ok(Variant, pos)
      [] eqi(w, "VOID") -> Ok(Void, pos)
      [] OTHER -> parse_other(toks, pos, w)

parse_inner_paren_on_every_backend(b, toks, pos) ==
    Try(next(toks, pos), LAMBDA tok :
        IF tok.val = LParen
        THEN Try(struct_fields(b, toks, tok.pos, RParen), LAMBDA fields :
                 Ok(Struct(Some(fields.val)), fields.pos))
        ELSE IF ~IsWord(tok.val) THEN Err(Unexpected(tok.val))
        ELSE parse_word(b, toks, tok.pos, tok.val[2]))

\* Parser::parse_inner
parse_inner(b, toks, pos) ==
    Try(next(toks, pos), LAMBDA tok :
        IF tok.val = LParen
        THEN IF b \in PostgresLike \cup {"Generic"}
             THEN Try(struct_fields(b, toks, tok.pos, RParen), LAMBDA fields :
                      Ok(Struct(Some(fields.val)), fields.pos))
             ELSE Err(Unexpected(tok.val))
        ELSE IF ~IsWord(tok.val) THEN Err(Unexpected(tok.val))
        ELSE parse_word(b, toks, tok.pos, tok.val[2]))

\* Parser::parse_unconstrained_type: the loop of the postfix [] of arrays
RECURSIVE postfix_arrays(_, _, _)
postfix_arrays(toks, pos, sql_type) ==
    IF match_(toks, pos, LBracket)
    THEN Try(expect(toks, pos + 1, RBracket), LAMBDA close :
             postfix_arrays(toks, close.pos, Array(Some(sql_type))))
    ELSE Ok(sql_type, pos)

\* Parser::parse_unconstrained_type
parse_unconstrained_type(b, toks, pos) ==
    Try(parse_inner(b, toks, pos), LAMBDA sql_type :
        IF b \in PostgresLike \cup {"Generic"}
        THEN postfix_arrays(toks, sql_type.pos, sql_type.val)
        ELSE sql_type)

Parser_parse_default_false(b, toks) ==
    Try(parse_constrained_type(b, toks, 1), LAMBDA r :
        [ok |-> TRUE, ty |-> r.val[1],
         nullable |-> IF IsSome(r.val[2]) THEN Unwrap(r.val[2]) ELSE FALSE,
         rest |-> SubSeq(toks, r.pos, Len(toks))])

\* Parser::parse: the type, whether it is nullable, and (for the properties)
\* the tokens the parser left unread.
Parser_parse(b, toks) ==
    Try(parse_constrained_type(b, toks, 1), LAMBDA r :
        [ok |-> TRUE, ty |-> r.val[1],
         nullable |-> IF IsSome(r.val[2]) THEN Unwrap(r.val[2]) ELSE TRUE,
         rest |-> SubSeq(toks, r.pos, Len(toks))])

\* SqlType::parse: on an error, the error wrapped in a message that holds the input.
parse_map_err(r, input) ==
    IF r.ok THEN r ELSE [ok |-> FALSE, err |-> r.err, message_input |-> input]

\* SqlType::parse
parse(b, input) == parse_map_err(Parser_parse(b, Tokenize(input)), input)

(***************************************************************************)
(* Metadata bridge: Arrow fields                                           *)
(*                                                                         *)
(* An Arrow Field is a record [name, data_type, nullable, metadata], the   *)
(* metadata a function from the keys present to their strings.  An Arrow   *)
(* DataType is a record with a field dt and the attributes of the type.    *)
(***************************************************************************)
Field(name, data_type, is_nullable, metadata) ==
    [name |-> name, data_type |-> data_type, nullable |-> is_nullable, metadata |-> metadata]
ArrowUnit(dt) == [dt |-> dt]
ArrowDecimal(dt, p, sc) == [dt |-> dt, p |-> p, s |-> sc]
\* Time32, Time64, Duration: a TimeUnit of Second, Millisecond, Microsecond, Nanosecond
ArrowTimed(dt, unit) == [dt |-> dt, unit |-> unit]
\* tz is an Option
ArrowTimestamp(unit, tz) == [dt |-> "Timestamp", unit |-> unit, tz |-> tz]
\* unit is YearMonth, DayTime or MonthDayNano
ArrowInterval(unit) == [dt |-> "Interval", unit |-> unit]
\* fields is a sequence of Fields
ArrowStruct(fields) == [dt |-> "Struct", fields |-> fields]
ArrowDictionary(key_type, value_type) ==
    [dt |-> "Dictionary", key_type |-> key_type, value_type |-> value_type]
\* values is a Field
ArrowRunEndEncoded(values) == [dt |-> "RunEndEncoded", values |-> values]

Panic(what) == [panic |-> TRUE, what |-> what]
NoPanic(ty) == [panic |-> FALSE, ty |-> ty]
\* The panic of r unwinds; without one the function goes on with r.
OrPanic(r, rest(_)) == IF r.panic THEN r ELSE rest(r)

TimeUnitPrecision(unit) ==
    CASE unit = "Second" -> None
      [] unit = "Millisecond" -> Some(3)
      [] unit = "Microsecond" -> Some(6)
      [] unit = "Nanosecond" -> Some(9)

\* SqlType::_from_arrow_type: the type, or the panic of todo!() and unreachable!()
RECURSIVE from_arrow_type(_, _)
RECURSIVE from_arrow_struct_fields(_, _, _, _)
from_arrow_struct_fields(b, fields, i, sql_fields) ==
    IF i > Len(fields) THEN NoPanic(Struct(Some(sql_fields)))
    ELSE OrPanic(from_arrow_type(b, fields[i].data_type), LAMBDA sql_type :
             from_arrow_struct_fields(b, fields, i + 1,
                 Append(sql_fields, <<Plain(fields[i].name), sql_type.ty, fields[i].nullable>>)))

from_arrow_type(b, data_type) ==
    LET dt == data_type.dt IN
    CASE dt = "Null" -> NoPanic(Varchar(None))
      [] dt = "Boolean" -> NoPanic(Boolean)
      [] dt \in {"Int8", "UInt8", "Int16"} -> NoPanic(SmallInt)
      [] dt \in {"UInt16", "Int32"} -> NoPanic(Integer)
      [] dt \in {"UInt32", "Int64", "UInt64"} -> NoPanic(BigInt)
      [] dt \in {"Float16", "Float32"} -> NoPanic(Real)
      [] dt = "Float64" -> NoPanic(Double)
      [] dt \in {"Decimal128", "Decimal256"} ->
           NoPanic(Numeric(Some(<<data_type.p, Some(data_type.s)>>)))
      [] dt \in {"Utf8View", "Utf8"} -> NoPanic(Varchar(None))
      [] dt = "LargeUtf8" -> NoPanic(Text)
      [] dt \in {"Binary", "LargeBinary", "BinaryView", "FixedSizeBinary"} -> NoPanic(Binary)
      [] dt \in {"Date32", "Date64"} -> NoPanic(Date)
      [] dt = "Time32" ->
           IF data_type.unit \in {"Second", "Millisecond"}
           THEN NoPanic(Time(TimeUnitPrecision(data_type.unit), "Without"))
           ELSE Panic("unreachable")
      [] dt = "Time64" ->
           IF data_type.unit \in {"Microsecond", "Nanosecond"}
           THEN NoPanic(Time(TimeUnitPrecision(data_type.unit), "Without"))
           ELSE Panic("unreachable")
      [] dt = "Timestamp" ->
           NoPanic(Timestamp(TimeUnitPrecision(data_type.unit),
                             IF IsSome(data_type.tz) THEN "With" ELSE "Without"))
      [] dt = "Duration" -> Panic("todo")
      [] dt = "Interval" ->
           NoPanic(Interval(Some(
               CASE data_type.unit = "YearMonth" -> <<"Year", Some("Month")>>
                 [] data_type.unit = "DayTime" -> <<"Day", Some("Millisecond")>>
                 [] data_type.unit = "MonthDayNano" -> <<"Month", Some("Nanosecond")>>)))
      [] dt \in {"List", "LargeList", "ListView", "LargeListView"} -> NoPanic(Array(None))
      [] dt = "FixedSizeList" -> NoPanic(Other("ARRAY"))
      [] dt = "Struct" -> from_arrow_struct_fields(b, data_type.fields, 1, <<>>)
      [] dt = "Union" -> NoPanic(Other("UNION"))
      [] dt = "Map" -> NoPanic(Map(None))
      [] dt = "Dictionary" -> from_arrow_type(b, data_type.value_type)
      [] dt = "RunEndEncoded" -> from_arrow_type(b, data_type.values.data_type)

POSTGRES_KEYS == <<"POSTGRES:type", "type">>
SNOWFLAKE_KEYS == <<"SNOWFLAKE:type", "type">>
BIGQUERY_KEYS == <<"BIGQUERY:type", "type">>
DATABRICKS_KEYS == <<"DBX:type", "type_text", "type">>
REDSHIFT_KEYS == <<"REDSHIFT:type", "type">>
GENERIC_KEYS == <<"SQL:type", "type">>

metadata_type_candidate_keys(b) ==
    CASE b \in {"Postgres", "Salesforce"} -> POSTGRES_KEYS
      [] b = "Snowflake" -> SNOWFLAKE_KEYS
      [] b = "BigQuery" -> BIGQUERY_KEYS
      [] b = "Databricks" -> DATABRICKS_KEYS
      [] b \in {"Redshift", "RedshiftODBC"} -> REDSHIFT_KEYS
      [] b = "DatabricksODBC" -> DATABRICKS_KEYS
      [] b = "Generic" -> GENERIC_KEYS

metadata_key(b) == metadata_type_candidate_keys(b)[1]

type_string_from_field_last_key(b, field) ==
    LET keys == metadata_type_candidate_keys(b)
        hits == {i \in 1..Len(keys) : keys[i] \in DOMAIN field.metadata}
    IN IF hits = {} THEN None
       ELSE Some(field.metadata[keys[CHOOSE i \in hits : \A j \in hits : j <= i]])

\* type_string_from_field: the string under the first candidate key that is present
type_string_from_field(b, field) ==
    LET keys == metadata_type_candidate_keys(b)
        hits == {i \in 1..Len(keys) : keys[i] \in DOMAIN field.metadata}
    IN IF hits = {} THEN None
       ELSE Some(field.metadata[keys[CHOOSE i \in hits : \A j \in hits : i <= j]])

\* SqlType::from_field, the metadata holding a type string: the parsed type,
\* nullable when the string or the field says so.
from_field_parsed(parsed, field) ==
    IF ~parsed.ok THEN [kind |-> "Err", err |-> parsed]
    ELSE [kind |-> "Ok", ty |-> parsed.ty, nullable |-> parsed.nullable \/ field.nullable]

from_field_parsed_and(parsed, field) ==
    IF ~parsed.ok THEN [kind |-> "Err", err |-> parsed]
    ELSE [kind |-> "Ok", ty |-> parsed.ty, nullable |-> parsed.nullable /\ field.nullable]

\* SqlType::from_field, the metadata holding no type string: the type of the
\* Arrow data type, nullable as the field is.
from_field_arrow(sql_type, field) ==
    IF sql_type.panic THEN [kind |-> "Panic", what |-> sql_type.what]
    ELSE [kind |-> "Ok", ty |-> sql_type.ty, nullable |-> field.nullable]

from_field_and(b, field) ==
    IF IsSome(type_string_from_field(b, field))
    THEN from_field_parsed_and(parse(b, Unwrap(type_string_from_field(b, field))), field)
    ELSE from_field_arrow(from_arrow_type(b, field.data_type), field)

from_field_fallback(b, field) ==
    IF IsSome(type_string_from_field(b, field))
          /\ parse(b, Unwrap(type_string_from_field(b, field))).ok
    THEN from_field_parsed(parse(b, Unwrap(type_string_from_field(b, field))), field)
    ELSE from_field_arrow(from_arrow_type(b, field.data_type), field)

\* SqlType::from_field
from_field(b, field) ==
    IF IsSome(type_string_from_field(b, field))
    THEN from_field_parsed(parse(b, Unwrap(type_string_from_field(b, field))), field)
    ELSE from_field_arrow(from_arrow_type(b, field.data_type), field)

\* SqlType::_pick_best_arrow_type: todo!(), a panic for every type and backend
pick_best_arrow_type(t, b) == Panic("todo")

\* SqlType::to_field: the panic of _pick_best_arrow_type unwinds before the
\* metadata is built; a data type would give the field below.
to_field(t, b, name, is_nullable) ==
    OrPanic(pick_best_arrow_type(t, b), LAMBDA data_type :
        [panic |-> FALSE,
         field |-> Field(name, data_type.ty, is_nullable,
                         [k \in {metadata_key(b)} |-> to_string(t, b)])])

(***************************************************************************)
(* The inputs the operations are called with                               *)
(***************************************************************************)
\* Case patterns repeat with this period: pattern k lowers the character at
\* index i when bit (i - 1) % CasePeriod of k is set, and raises the others.
CasePeriod == 3
RECURSIVE Pow2(_)
Pow2(n) == IF n = 0 THEN 1 ELSE 2 * Pow2(n - 1)
CasePatterns == 0..(Pow2(CasePeriod) - 1)

RECURSIVE RecaseFrom(_, _, _)
RecaseFrom(s, k, i) ==
    IF i > Len(s) THEN ""
    ELSE (IF (k \div Pow2((i - 1) % CasePeriod)) % 2 = 1
          THEN to_ascii_lowercase(CharAt(s, i))
          ELSE to_ascii_uppercase(CharAt(s, i)))
         \o RecaseFrom(s, k, i + 1)
Recase(s, k) == RecaseFrom(s, k, 1)

NullabilitySuffixes == {"", " NOT NULL", " NULLABLE"}

\* Every keyword of the type grammar, with its follow-on words, in upper case.
ScalarSpellings ==
    {"BOOLEAN", "BOOL", "TINYINT", "BYTEINT", "SMALLINT", "INT2", "SMALLSERIAL", "SERIAL2",
     "INTEGER", "INT", "INT4", "SERIAL", "SERIAL4", "BIGINT", "INT64", "INT8", "BIGSERIAL",
     "SERIAL8", "REAL", "FLOAT", "FLOAT(3)", "FLOAT4", "FLOAT8", "FLOAT64", "DOUBLE",
     "DOUBLE PRECISION", "DECIMAL", "DECIMAL(20)", "DECIMAL(60, 2)", "NUMERIC",
     "NUMERIC(20)", "NUMERIC(60, -2)", "NUMBER", "NUMBER(38, 0)", "BIGDECIMAL",
     "BIGDECIMAL(60,2)", "BIGNUMERIC", "BIGNUMERIC(20)",
     "CHAR", "CHAR(20)", "CHARACTER", "CHARACTER(20)", "NCHAR", "CHAR VARYING",
     "CHARACTER VARYING", "CHARACTER VARYING (20)", "NCHAR VARYING(5)",
     "CHAR LARGE OBJECT", "CHARACTER LARGE OBJECT", "NCHAR LARGE OBJECT",
     "VARCHAR", "VARCHAR(255)", "NVARCHAR", "NVARCHAR(0)", "NATIONAL CHAR",
     "NATIONAL CHAR(5)", "NATIONAL CHAR VARYING", "NATIONAL CHAR VARYING(7)",
     "STRING", "TEXT", "CLOB", "BLOB", "BINARY", "BINARY LARGE OBJECT", "VARBINARY",
     "BYTES", "BYTEA", "DATE", "JSON", "JSONB", "GEOMETRY", "GEOGRAPHY", "VARIANT", "VOID"}
TimeSpellings ==
    {"TIME", "TIME(0)", "TIME(5)", "TIME WITH TIME ZONE", "TIME(5) WITH TIME ZONE",
     "TIME(5) WITHOUT TIME ZONE", "TIME WITH LOCAL TIME ZONE", "TIMETZ",
     "TIMESTAMP", "TIMESTAMP(0)", "TIMESTAMP(9)", "TIMESTAMP WITH TIME ZONE",
     "TIMESTAMP(9) WITH TIME ZONE", "TIMESTAMP(3) WITH LOCAL TIME ZONE",
     "TIMESTAMP WITHOUT TIME ZONE", "TIMESTAMP(9) WITHOUT TIME ZONE", "TIMESTAMPTZ",
     "TIMESTAMP_NTZ", "TIMESTAMP_NTZ(3)", "TIMESTAMP_TZ", "TIMESTAMP_TZ(9)",
     "DATETIME", "DATETIME(3)"}
IntervalSpellings ==
    {"INTERVAL", "INTERVAL (0)", "INTERVAL(3)", "INTERVAL SECOND", "INTERVAL SECOND(3)",
     "INTERVAL YEAR", "INTERVAL MONTH", "INTERVAL DAY", "INTERVAL HOUR", "INTERVAL MINUTE",
     "INTERVAL MILLISECOND", "INTERVAL MICROSECOND", "INTERVAL NANOSECOND",
     "INTERVAL YEAR TO MONTH", "INTERVAL DAY TO SECOND", "INTERVAL DAY TO SECOND(6)",
     "INTERVAL YEAR TO MICROSECOND", "INTERVAL HOUR TO MINUTE", "INTERVAL MINUTE TO NANOSECOND"}
NestedSpellings ==
    {"ARRAY", "ARRAY<INTEGER>", "ARRAY<ARRAY<CHARACTER VARYING>>", "STRUCT", "STRUCT<>",
     "MAP", "MAP<VARCHAR, INT>", "MAP<STRING, ARRAY<TIMESTAMP WITH TIME ZONE>>"}
KeywordSpellings == ScalarSpellings \cup TimeSpellings \cup IntervalSpellings \cup NestedSpellings

\* Type strings that are not a single keyword spelling.
CompositeSpellings ==
    {"STRUCT<a INT, b VARCHAR NOT NULL>", "STRUCT<a STRUCT<b DATE NOT NULL>>",
     "uuid", "ANY OTHER TYPE"}
TypeSpellings == KeywordSpellings \cup CompositeSpellings

(***************************************************************************)
(* The calls                                                               *)
(***************************************************************************)
\* The families of inputs that are type strings, and those that are types.
TextFamilies ==
    {"type_string", "trailing", "other", "other_nested", "struct_text", "interval", "time_text",
     "interval_decorated", "postfix", "leading_token",
     "interval_to", "struct_list"}
TypeFamilies == {"matrix", "struct_type", "timestamp"}

\* SqlType::parse(backend, arg)
CallParse ==
    /\ op = "idle"
    /\ shape.family \in TextFamilies
    /\ op' = "parse"
    /\ ret' = parse(backend, arg)
    /\ UNCHANGED <<backend, arg, shape, sem, thread, spurious, ctx>>

(***************************************************************************)
(* Type strings in every case pattern, with every nullability suffix       *)
(***************************************************************************)
InitTypeString ==
    /\ op = "idle"
    /\ ret = <<>>
    /\ NoSemaphore
    /\ NoQueryCtx
    /\ backend \in Backends
    /\ \E base \in TypeSpellings, suffix \in NullabilitySuffixes, k \in CasePatterns :
          /\ arg = Recase(base \o suffix, k)
          /\ shape = [family |-> "type_string", base |-> base, suffix |-> suffix, case |-> k]

SpecTypeString == InitTypeString /\ [][CallParse]_vars

C7_CaseInsensitive ==
    (op = "parse" /\ shape.base \in KeywordSpellings) =>
        LET upper == parse(backend, shape.base \o shape.suffix)
        IN  /\ ret.ok
            /\ upper.ok
            /\ ret.ty = upper.ty
            /\ ret.nullable = upper.nullable

C7_Witness ==
    /\ op = "parse"
    /\ shape.base = "TIMESTAMP(3) WITH LOCAL TIME ZONE"
    /\ shape.suffix = " NOT NULL"
    /\ shape.case = 2
    /\ arg # shape.base \o shape.suffix
    /\ ret.ok
    /\ ret.ty = Timestamp(Some(3), "Local")
    /\ ret.nullable = FALSE

(***************************************************************************)
(* A recognized type, its suffix, and then tokens no type goes on with     *)
(***************************************************************************)
TrailingTokens == {"foo", ")", "INT", ", x"}

InitTrailing ==
    /\ op = "idle"
    /\ ret = <<>>
    /\ NoSemaphore
    /\ NoQueryCtx
    /\ backend \in Backends
    /\ \E base \in KeywordSpellings, suffix \in NullabilitySuffixes, trailing \in TrailingTokens :
          /\ arg = base \o suffix \o " " \o trailing
          /\ shape = [family |-> "trailing", base |-> base, suffix |-> suffix,
                      trailing |-> trailing]

SpecTrailing == InitTrailing /\ [][CallParse]_vars

\* C3: SqlType::parse returns a parse error when tokens remain unconsumed
\* after a recognized (non-Other) type and its optional nullability suffix.
C3_TrailingTokensRejected ==
    (op = "parse" /\ shape.family = "trailing") => ~ret.ok

\* The parse of "INT foo" succeeds and leaves foo unread.
C3_TrailingTokensAccepted ==
    /\ op = "parse"
    /\ arg = "INT foo"
    /\ ret.ok
    /\ ret.ty = Integer
    /\ ret.nullable = TRUE
    /\ ret.rest = <<Word("foo")>>

(***************************************************************************)
(* A word that is no type keyword, and the tokens after it                 *)
(***************************************************************************)
MaxOtherTokens == 3
OtherHeads == {"uuid", "NULL", "not", DoubleQuote \o "my type" \o DoubleQuote}
OtherVocabulary == {"foo", "(", "3", ")", "NOT", "null", DoubleQuote \o "not" \o DoubleQuote}
NestedOtherInputs == {"STRUCT<a NULL NOT NULL>", "STRUCT<a uuid NOT NULL, b INT>"}

RECURSIVE JoinWithSpaces(_)
JoinWithSpaces(words) ==
    IF words = <<>> THEN ""
    ELSE IF Len(words) = 1 THEN words[1]
    ELSE words[1] \o " " \o JoinWithSpaces(Tail(words))

RECURSIVE SeqsUpTo(_, _)
SeqsUpTo(S, n) ==
    IF n = 0 THEN {<<>>}
    ELSE LET shorter == SeqsUpTo(S, n - 1)
         IN shorter \cup {Append(w, x) : w \in shorter, x \in S}

InitOther ==
    /\ op = "idle"
    /\ ret = <<>>
    /\ NoSemaphore
    /\ NoQueryCtx
    /\ backend \in Backends
    /\ \/ \E head \in OtherHeads, tail \in SeqsUpTo(OtherVocabulary, MaxOtherTokens) :
             /\ arg = JoinWithSpaces(<<head>> \o tail)
             /\ shape = [family |-> "other", head |-> head, tail |-> tail]
       \/ \E input \in NestedOtherInputs :
             /\ arg = input
             /\ shape = [family |-> "other_nested", head |-> "STRUCT", tail |-> <<>>]

SpecOther == InitOther /\ [][CallParse]_vars

\* Every Other payload of a type, at any depth.
RECURSIVE OtherPayloads(_)
OtherPayloads(t) ==
    CASE t.tag = "Other" -> {t.s}
      [] t.tag = "Array" -> IF IsSome(t.inner) THEN OtherPayloads(Unwrap(t.inner)) ELSE {}
      [] t.tag = "Struct" ->
           IF IsSome(t.fields)
           THEN UNION {OtherPayloads(Unwrap(t.fields)[i][2]) : i \in DOMAIN Unwrap(t.fields)}
           ELSE {}
      [] t.tag = "Map" ->
           IF IsSome(t.kv)
           THEN OtherPayloads(Unwrap(t.kv)[1]) \cup OtherPayloads(Unwrap(t.kv)[2])
           ELSE {}
      [] OTHER -> {}

HasNullToken(payload) ==
    \E i \in DOMAIN Tokenize(payload) : TokenEq(Tokenize(payload)[i], Word("NULL"))

\* C5: no Other payload the parser produces, at top level or nested, contains
\* the token NULL (and so none contains the token sequence NOT NULL).
C5_OtherPayloadHasNoNull ==
    (op = "parse" /\ ret.ok) => \A payload \in OtherPayloads(ret.ty) : ~HasNullToken(payload)

\* The parse of "NULL" succeeds with the payload NULL.
C5_NullCaptured ==
    /\ op = "parse"
    /\ arg = "NULL"
    /\ ret.ok
    /\ ret.ty = Other("NULL")

\* The index of the first NOT or NULL word after the head, or one past the end.
FirstStop(toks) ==
    LET stops == {i \in 2..Len(toks) :
                     TokenEq(toks[i], Word("NOT")) \/ TokenEq(toks[i], Word("NULL"))}
    IN IF stops = {} THEN Len(toks) + 1
       ELSE CHOOSE i \in stops : \A j \in stops : i <= j

\* C6: when the first word is no keyword the parser returns Other whose
\* payload is that word and every token after it up to but excluding the
\* first NOT or NULL word, joined by single spaces, quoted words with their
\* quotes; a NOT NULL that follows is the nullability suffix: nullable = false.
C6_UnknownTypeCapture ==
    (op = "parse" /\ shape.family = "other") =>
        LET toks == Tokenize(arg)
            stop == FirstStop(toks)
            payload == JoinWithSpaces([i \in 1..(stop - 1) |-> toks[i][2]])
            not_null == /\ stop < Len(toks)
                        /\ TokenEq(toks[stop], Word("NOT"))
                        /\ TokenEq(toks[stop + 1], Word("NULL"))
        IN  /\ ret.ok => ret.ty = Other(payload)
            /\ stop = Len(toks) + 1 => (ret.ok /\ ret.nullable = TRUE)
            /\ not_null => (ret.ok /\ ret.nullable = FALSE)

C6_Witness ==
    /\ op = "parse"
    /\ shape.family = "other"
    /\ shape.head = "uuid"
    /\ shape.tail = <<DoubleQuote \o "not" \o DoubleQuote, "NOT", "null">>
    /\ ret.ok
    /\ ret.ty = Other("uuid \"not\"")
    /\ ret.nullable = FALSE

(***************************************************************************)
(* Rendering a type of the canonical matrix and parsing what was rendered  *)
(***************************************************************************)
\* The types of expected_type_rendering_for, in the order of its table.
Matrix ==
    {Boolean,
     TinyInt,
     SmallInt,
     Integer,
     BigInt,
     Real,
     Float(None),
     Float(Some(3)),
     Double,
     Numeric(None),
     Numeric(Some(<<20, None>>)),
     Numeric(Some(<<60, Some(2)>>)),
     Varchar(None),
     Varchar(Some(255)),
     Text,
     Clob,
     Blob,
     Binary,
     Date,
     Time(None, "Without"),
     Time(Some(0), "Without"),
     Time(Some(5), "Without"),
     Time(Some(9), "Without"),
     Time(Some(9), "With"),
     DateTime,
     Timestamp(None, "Without"),
     Timestamp(None, "With"),
     Timestamp(Some(3), "Without"),
     Timestamp(Some(3), "With"),
     Interval(None),
     Interval(Some(<<"Second", None>>)),
     Interval(Some(<<"Millisecond", None>>)),
     Interval(Some(<<"Day", Some("Microsecond")>>)),
     Interval(Some(<<"Year", None>>)),
     Interval(Some(<<"Day", Some("Hour")>>)),
     Interval(Some(<<"Day", Some("Minute")>>)),
     Interval(Some(<<"Day", Some("Second")>>)),
     Interval(Some(<<"Hour", Some("Minute")>>)),
     Interval(Some(<<"Hour", Some("Second")>>)),
     Interval(Some(<<"Minute", Some("Second")>>)),
     Interval(Some(<<"Month", Some("Day")>>)),
     Interval(Some(<<"Month", Some("Hour")>>)),
     Interval(Some(<<"Month", Some("Minute")>>)),
     Interval(Some(<<"Month", Some("Second")>>)),
     Interval(Some(<<"Year", Some("Day")>>)),
     Interval(Some(<<"Year", Some("Hour")>>)),
     Interval(Some(<<"Year", Some("Minute")>>)),
     Interval(Some(<<"Year", Some("Month")>>)),
     Interval(Some(<<"Year", Some("Second")>>)),
     Array(Some(Json)),
     Struct(Some(<<<<Plain("a"), Float(None), TRUE>>>>)),
     Struct(Some(<<<<Plain("name"), Varchar(None), TRUE>>, <<Plain("age"), Integer, FALSE>>>>)),
     Struct(Some(<<<<Plain("last_completion_time"), Timestamp(None, "Without"), TRUE>>,
         <<Plain("error_time"), Timestamp(None, "Without"), TRUE>>, <<Plain("error"),
         Struct(Some(<<<<Plain("reason"), Varchar(None), TRUE>>, <<Plain("location"), Varchar(None),
         TRUE>>, <<Plain("message"), Varchar(None), TRUE>>>>)), TRUE>>>>)),
     Array(Some(Struct(Some(<<<<Plain("date"), Date, TRUE>>, <<Plain("value"), Varchar(None),
         TRUE>>>>)))),
     Struct(Some(<<<<Plain("elements"), Array(Some(Struct(Some(<<<<Plain("date"), Date, TRUE>>,
         <<Plain("value"), Varchar(None), TRUE>>>>)))), TRUE>>>>)),
     Map(Some(<<Varchar(None), Integer>>)),
     Variant,
     Void,
     Other("ANY OTHER TYPE")}

InitMatrix ==
    /\ op = "idle"
    /\ ret = <<>>
    /\ NoSemaphore
    /\ NoQueryCtx
    /\ backend \in TestBackends
    /\ arg \in Matrix
    /\ shape = [family |-> "matrix", rendered |-> ""]

\* arg.to_string(backend)
CallToString ==
    /\ op = "idle"
    /\ shape.family \in TypeFamilies
    /\ op' = "to_string"
    /\ ret' = to_string(arg, backend)
    /\ UNCHANGED <<backend, arg, shape, sem, thread, spurious, ctx>>

\* SqlType::parse(backend, s) of the string s that to_string returned
CallParseRendered ==
    /\ op = "to_string"
    /\ op' = "parse_rendered"
    /\ ret' = parse(backend, ret)
    /\ shape' = [shape EXCEPT !.rendered = ret]
    /\ UNCHANGED <<backend, arg, sem, thread, spurious, ctx>>

SpecRoundTrip == InitMatrix /\ [][CallToString \/ CallParseRendered]_vars

\* C1: for every type t of the canonical matrix and every tested backend d,
\* SqlType::parse(d, t.to_string(d)) succeeds and the parsed type renders
\* under d to exactly the string t rendered to.
C1_RoundTrip ==
    op = "parse_rendered" =>
        /\ ret.ok
        /\ to_string(ret.ty, backend) = shape.rendered

C1_Witness ==
    /\ op = "parse_rendered"
    /\ backend = "Postgres"
    /\ arg = Interval(Some(<<"Day", Some("Microsecond")>>))
    /\ shape.rendered = "INTERVAL DAY TO SECOND(6)"
    /\ ret.ok
    /\ ret.ty = arg

(***************************************************************************)
(* Structs: as text in both forms, and as types to render and parse back   *)
(***************************************************************************)
MaxFields == 2
FieldNames == <<"a", "b", "c">>
FieldTypeStrings == {"INT", "VARCHAR(5)", "TIMESTAMP WITH TIME ZONE", "STRUCT<x DATE NOT NULL>", "uuid"}
StructForms == {"angle", "paren"}

\* The type each field type string stands for.
FieldTypeOf(text) ==
    CASE text = "INT" -> Integer
      [] text = "VARCHAR(5)" -> Varchar(Some(5))
      [] text = "TIMESTAMP WITH TIME ZONE" -> Timestamp(None, "With")
      [] text = "STRUCT<x DATE NOT NULL>" -> Struct(Some(<<<<Plain("x"), Date, FALSE>>>>))
      [] text = "uuid" -> Other("uuid")

FieldSpecs == [type : FieldTypeStrings, suffix : NullabilitySuffixes]
FieldLists == SeqsUpTo(FieldSpecs, MaxFields) \ {<<>>}

StructText(form, fields) ==
    (IF form = "angle" THEN "STRUCT<" ELSE "(")
    \o JoinWithSpaces([i \in DOMAIN fields |->
           FieldNames[i] \o " " \o fields[i].type \o fields[i].suffix
           \o (IF i < Len(fields) THEN "," ELSE "")])
    \o (IF form = "angle" THEN ">" ELSE ")")

StructType(fields) ==
    Struct(Some([i \in DOMAIN fields |->
        <<Plain(FieldNames[i]), FieldTypeOf(fields[i].type), fields[i].suffix # " NOT NULL">>]))

\* The backends whose parser reads the parenthesized form of a struct.
ParenStructBackends == PostgresLike \cup {"Generic"}

InitStruct ==
    /\ op = "idle"
    /\ ret = <<>>
    /\ NoSemaphore
    /\ NoQueryCtx
    /\ backend \in Backends
    /\ \E fields \in FieldLists :
          \/ \E form \in StructForms :
                /\ form = "paren" => backend \in ParenStructBackends
                /\ arg = StructText(form, fields)
                /\ shape = [family |-> "struct_text", fields |-> fields, rendered |-> ""]
          \/ /\ arg = StructType(fields)
             /\ shape = [family |-> "struct_type", fields |-> fields, rendered |-> ""]

SpecStruct == InitStruct /\ [][CallParse \/ CallToString \/ CallParseRendered]_vars

\* The nullable flags of the fields of a struct, in order.
FieldFlags(t) == [i \in DOMAIN Unwrap(t.fields) |-> Unwrap(t.fields)[i][3]]

\* C4: inside a struct, in either form, each parsed field is nullable when it
\* has no suffix or NULLABLE and not nullable when it has NOT NULL; the
\* renderer writes NOT NULL after exactly the fields that are not nullable, so
\* the flags of the fields survive parsing what was rendered.
C4_StructFieldNullability ==
    /\ (op = "parse" /\ ret.ok) =>
           /\ ret.ty.tag = "Struct"
           /\ \A i \in DOMAIN FieldFlags(ret.ty) :
                 FieldFlags(ret.ty)[i] = (shape.fields[i].suffix # " NOT NULL")
    /\ op = "parse_rendered" =>
           /\ ret.ok
           /\ ret.ty.tag = "Struct"
           /\ FieldFlags(ret.ty) = FieldFlags(arg)

\* A field of an unknown type takes the fields after it into its payload,
\* and their NOT NULL as its own.
C4_FieldSwallowed ==
    /\ op = "parse"
    /\ arg = "STRUCT<a uuid, b INT NOT NULL>"
    /\ ret.ok
    /\ ret.ty = Struct(Some(<<<<Plain("a"), Other("uuid , b INT"), FALSE>>>>))

\* With fields of recognized types only, the flags are as C4 states them.
OnlyRecognizedFields == \A i \in DOMAIN shape.fields : shape.fields[i].type # "uuid"

C4_RecognizedFields ==
    /\ (op = "parse" /\ OnlyRecognizedFields) =>
           /\ ret.ok
           /\ ret.ty.tag = "Struct"
           /\ FieldFlags(ret.ty) = [i \in DOMAIN shape.fields |-> shape.fields[i].suffix # " NOT NULL"]
    /\ (op = "parse_rendered" /\ OnlyRecognizedFields) =>
           /\ ret.ok
           /\ ret.ty.tag = "Struct"
           /\ FieldFlags(ret.ty) = FieldFlags(arg)

(***************************************************************************)
(* Intervals with a precision                                              *)
(***************************************************************************)
MaxPrecision == 12
Precisions == (0..MaxPrecision) \cup {IntMax("u8")}
IntervalForms == {"precision", "second", "to_second"}

IntervalText(form, start, p) ==
    CASE form = "precision" -> "INTERVAL(" \o ToString(p) \o ")"
      [] form = "second" -> "INTERVAL SECOND(" \o ToString(p) \o ")"
      [] form = "to_second" ->
           "INTERVAL " \o DateTimeFieldDisplay(start) \o " TO SECOND(" \o ToString(p) \o ")"

InitInterval ==
    /\ op = "idle"
    /\ ret = <<>>
    /\ NoSemaphore
    /\ NoQueryCtx
    /\ backend \in Backends
    /\ \E form \in IntervalForms, start \in DateTimeFields, p \in Precisions :
          /\ form # "to_second" => start = "Second"
          /\ arg = IntervalText(form, start, p)
          /\ shape = [family |-> "interval", form |-> form, start |-> start, p |-> p]

SpecInterval == InitInterval /\ [][CallParse]_vars

\* The sub-second field a precision stands for.
SubSecondField(p) ==
    CASE p \in 0..2 -> "Second"
      [] p \in 3..5 -> "Millisecond"
      [] p \in 6..8 -> "Microsecond"
      [] p >= 9 -> "Nanosecond"

\* C8: on every dialect INTERVAL(p), INTERVAL SECOND(p) and
\* INTERVAL <start> TO SECOND(p) map p to Second for 0..2, Millisecond for
\* 3..5, Microsecond for 6..8 and Nanosecond from 9 on: the mapped field is the
\* single field (first two forms) or the end field, the start field unchanged.
C8_IntervalPrecisionMapping ==
    op = "parse" =>
        /\ ret.ok
        /\ ret.ty = Interval(Some(IF shape.form = "to_second"
                                  THEN <<shape.start, Some(SubSecondField(shape.p))>>
                                  ELSE <<SubSecondField(shape.p), None>>))

C8_Witness ==
    /\ op = "parse"
    /\ arg = "INTERVAL HOUR TO SECOND(8)"
    /\ ret.ok
    /\ ret.ty = Interval(Some(<<"Hour", Some("Microsecond")>>))

(***************************************************************************)
(* Arrow fields with type strings in their metadata                        *)
(***************************************************************************)
MaxMetadataKeys == 2
MetadataKeys ==
    {"POSTGRES:type", "SNOWFLAKE:type", "BIGQUERY:type", "DBX:type", "REDSHIFT:type",
     "SQL:type", "type_text", "type", "comment"}
MetadataTypeStrings == {"INT NOT NULL", "VARCHAR", "DECIMAL("}
FieldDataTypes == {ArrowUnit("Int64"), ArrowTimed("Duration", "Second")}

Metadatas ==
    UNION {[keys -> MetadataTypeStrings] :
              keys \in {K \in SUBSET MetadataKeys : Cardinality(K) <= MaxMetadataKeys}}

InitField ==
    /\ op = "idle"
    /\ ret = <<>>
    /\ NoSemaphore
    /\ NoQueryCtx
    /\ backend \in Backends
    /\ \E data_type \in FieldDataTypes, is_nullable \in BOOLEAN, metadata \in Metadatas :
          arg = Field("f", data_type, is_nullable, metadata)
    /\ shape = [family |-> "field"]

\* SqlType::from_field(backend, arg)
CallFromField ==
    /\ op = "idle"
    /\ shape.family \in {"field", "arrow_field"}
    /\ op' = "from_field"
    /\ ret' = from_field(backend, arg)
    /\ UNCHANGED <<backend, arg, shape, sem, thread, spurious, ctx>>

SpecField == InitField /\ [][CallFromField]_vars

\* The keys of the dialect's list that the field has, in the order of the list.
PresentKeys(b, field) ==
    SelectSeq(metadata_type_candidate_keys(b), LAMBDA k : k \in DOMAIN field.metadata)

C10_MetadataKeyPriority ==
    op = "from_field" =>
        /\ metadata_type_candidate_keys("Databricks") = <<"DBX:type", "type_text", "type">>
        /\ metadata_type_candidate_keys("Salesforce") = metadata_type_candidate_keys("Postgres")
        /\ metadata_type_candidate_keys("DatabricksODBC") = metadata_type_candidate_keys("Databricks")
        /\ LET keys == metadata_type_candidate_keys(backend)
           IN \A i \in DOMAIN keys :
                  (/\ keys[i] \in DOMAIN arg.metadata
                   /\ \A j \in 1..(i - 1) : keys[j] \notin DOMAIN arg.metadata) =>
                      LET parsed == parse(backend, arg.metadata[keys[i]])
                      IN IF parsed.ok THEN ret.kind = "Ok" /\ ret.ty = parsed.ty
                         ELSE ret.kind = "Err" /\ ret.err.message_input = arg.metadata[keys[i]]

C10_Witness ==
    /\ op = "from_field"
    /\ backend = "DatabricksODBC"
    /\ DOMAIN arg.metadata = {"type_text", "type"}
    /\ arg.metadata["type_text"] = "VARCHAR"
    /\ arg.metadata["type"] = "INT NOT NULL"
    /\ ret.kind = "Ok"
    /\ ret.ty = Varchar(None)

\* C11: when the metadata has a key of the dialect's list and the string under
\* the first such key does not parse, from_field returns the error of parsing
\* that string: it returns neither the type of the Arrow data type nor the type
\* of a string under a later key.
C11_ParseErrorPropagated ==
    (op = "from_field" /\ PresentKeys(backend, arg) # <<>>) =>
        (~parse(backend, arg.metadata[Head(PresentKeys(backend, arg))]).ok =>
            /\ ret.kind = "Err"
            /\ ret.err = parse(backend, arg.metadata[Head(PresentKeys(backend, arg))]))

C11_Witness ==
    /\ op = "from_field"
    /\ backend = "Databricks"
    /\ DOMAIN arg.metadata = {"DBX:type", "type"}
    /\ arg.metadata["DBX:type"] = "DECIMAL("
    /\ arg.metadata["type"] = "VARCHAR"
    /\ arg.data_type = ArrowUnit("Int64")
    /\ ret.kind = "Err"
    /\ ret.err.err = UnexpectedEndOfInput
    /\ ret.err.message_input = "DECIMAL("

(***************************************************************************)
(* Types made into Arrow fields                                            *)
(***************************************************************************)
ToFieldNames == {"f", "id"}

InitToField ==
    /\ op = "idle"
    /\ ret = <<>>
    /\ NoSemaphore
    /\ NoQueryCtx
    /\ backend \in Backends
    /\ arg \in Matrix
    /\ \E name \in ToFieldNames, is_nullable \in BOOLEAN :
          shape = [family |-> "to_field", name |-> name, nullable |-> is_nullable]

\* arg.to_field(backend, shape.name, shape.nullable)
CallToField ==
    /\ op = "idle"
    /\ shape.family = "to_field"
    /\ op' = "to_field"
    /\ ret' = to_field(arg, backend, shape.name, shape.nullable)
    /\ UNCHANGED <<backend, arg, shape, sem, thread, spurious, ctx>>

SpecToField == InitToField /\ [][CallToField]_vars

\* C12: to_field returns a field with the given name and nullability whose
\* metadata maps the first key of the dialect's list to the rendered type.
C12_ToFieldReturnsField ==
    op = "to_field" =>
        /\ ~ret.panic
        /\ ret.field.name = shape.name
        /\ ret.field.nullable = shape.nullable
        /\ ret.field.metadata = [k \in {metadata_key(backend)} |-> to_string(arg, backend)]

\* to_field of VARCHAR on Snowflake ends in the panic of todo!().
C12_ToFieldPanics ==
    /\ op = "to_field"
    /\ backend = "Snowflake"
    /\ arg = Varchar(None)
    /\ ret.panic
    /\ ret.what = "todo"

(***************************************************************************)
(* Time zone specifications asked whether they are with a time zone        *)
(***************************************************************************)
\* The build has debug assertions (a debug build) or has none (a release build).
InitTimeZone ==
    /\ op = "idle"
    /\ ret = <<>>
    /\ NoSemaphore
    /\ NoQueryCtx
    /\ backend \in Backends
    /\ arg \in TimeZoneSpecs
    /\ \E debug_assertions \in BOOLEAN :
          shape = [family |-> "time_zone", debug_assertions |-> debug_assertions]

\* arg.is_with_time_zone(backend)
CallIsWithTimeZone ==
    /\ op = "idle"
    /\ shape.family = "time_zone"
    /\ op' = "is_with_time_zone"
    /\ ret' = is_with_time_zone(arg, backend, shape.debug_assertions)
    /\ UNCHANGED <<backend, arg, shape, sem, thread, spurious, ctx>>

SpecTimeZone == InitTimeZone /\ [][CallIsWithTimeZone]_vars

\* C13: is_with_time_zone returns a value for every backend and specification:
\* true for With and Local, true for Unspecified on Databricks, false for
\* Unspecified on Snowflake and on the other backends, false for Without.
C13_IsWithTimeZone ==
    op = "is_with_time_zone" =>
        /\ ~ret.panic
        /\ ret.value = (\/ arg \in {"With", "Local"}
                        \/ arg = "Unspecified" /\ backend = "Databricks")

\* Unspecified on Snowflake in a build with debug assertions: the call panics.
C13_SnowflakeUnspecifiedPanics ==
    /\ op = "is_with_time_zone"
    /\ backend = "Snowflake"
    /\ arg = "Unspecified"
    /\ shape.debug_assertions
    /\ ret.panic

\* In a build without debug assertions every call returns the value of C13.
C13_ReleaseBuildValue ==
    (op = "is_with_time_zone" /\ ~shape.debug_assertions) =>
        /\ ~ret.panic
        /\ ret.value = (\/ arg \in {"With", "Local"}
                        \/ arg = "Unspecified" /\ backend = "Databricks")

(***************************************************************************)
(* Timestamps of every precision and time zone specification, rendered     *)
(***************************************************************************)
MaxTimestampPrecision == 12
TimestampPrecisions == {None} \cup {Some(p) : p \in 0..MaxTimestampPrecision}

InitTimestamp ==
    /\ op = "idle"
    /\ ret = <<>>
    /\ NoSemaphore
    /\ NoQueryCtx
    /\ backend \in Backends
    /\ \E p \in TimestampPrecisions, tz \in TimeZoneSpecs : arg = Timestamp(p, tz)
    /\ shape = [family |-> "timestamp", rendered |-> ""]

SpecTimestamp == InitTimestamp /\ [][CallToString]_vars

\* C14: on Postgres, Redshift and RedshiftODBC a Timestamp with precision p
\* renders as TIMESTAMP(p) and then " WITH TIME ZONE" for With and nothing for
\* Without, and a Timestamp without precision as TIMESTAMPTZ for With and as
\* TIMESTAMP for Without and Unspecified; on Snowflake a Timestamp with
\* precision p and With renders as TIMESTAMP_TZ(p).
C14_TimestampRendering ==
    (op = "to_string" /\ shape.family = "timestamp") =>
        /\ (backend \in {"Postgres", "Redshift", "RedshiftODBC"} /\ IsSome(arg.precision)) =>
              /\ arg.time_zone_spec = "With" =>
                    ret = "TIMESTAMP(" \o ToString(Unwrap(arg.precision)) \o ") WITH TIME ZONE"
              /\ arg.time_zone_spec = "Without" =>
                    ret = "TIMESTAMP(" \o ToString(Unwrap(arg.precision)) \o ")"
        /\ (backend \in {"Postgres", "Redshift", "RedshiftODBC"} /\ ~IsSome(arg.precision)) =>
              /\ arg.time_zone_spec = "With" => ret = "TIMESTAMPTZ"
              /\ arg.time_zone_spec \in {"Without", "Unspecified"} => ret = "TIMESTAMP"
        /\ (backend = "Snowflake" /\ IsSome(arg.precision) /\ arg.time_zone_spec = "With") =>
              ret = "TIMESTAMP_TZ(" \o ToString(Unwrap(arg.precision)) \o ")"

C14_Witness ==
    /\ op = "to_string"
    /\ shape.family = "timestamp"
    /\ backend = "Redshift"
    /\ arg = Timestamp(None, "With")
    /\ ret = "TIMESTAMPTZ"

(***************************************************************************)
(* Semaphore (crates/dbt-xdbc/src/semaphore.rs)                            *)
(*                                                                         *)
(* sem is the Semaphore, [max, a]: a is the AtomicU32 of its base.  Every  *)
(* access to a is one step.  thread[t] says where thread t is in its call: *)
(*   pc            "idle" outside a call, "wait" before atomic_wait::wait, *)
(*                 "asleep" inside it, "load" before the load that follows,*)
(*                 "cas" before try_acquire_impl, "wake" before wake_all   *)
(*   call          the function of the base the thread is in               *)
(*   ask           the permits the call asks for                           *)
(*   insufficient  the value the call waits on                             *)
(*   old           the value the call loaded last                          *)
(*   guards, all   the PermitGuards and PermitGuardAlls the thread holds   *)
(***************************************************************************)
Threads == {"t1", "t2", "t3"}
MaxPermits == 2
MaxSpurious == 1

\* A thread outside a call that holds the given guards.
Outside(guards, all) ==
    [pc |-> "idle", call |-> "", ask |-> 0, insufficient |-> 0, old |-> 0,
     guards |-> guards, all |-> all]

\* Semaphore::new(count)
Semaphore_new(count) == [max |-> count, a |-> count]

\* Semaphore::max
Semaphore_max(s) == s.max

try_acquire_impl_unchecked(a, old, ask, fails_spuriously) ==
    IF a = old /\ ~fails_spuriously
    THEN [ok |-> TRUE, a |-> old - ask]
    ELSE [ok |-> FALSE, a |-> a]

\* AtomicSemaphoreBase::try_acquire_impl on the counter a: old >= ask and a
\* compare_exchange_weak of old for old - ask, which fails when a is not old and
\* may fail spuriously when it is.
try_acquire_impl(a, old, ask, fails_spuriously) ==
    IF old >= ask /\ a = old /\ ~fails_spuriously
    THEN [ok |-> TRUE, a |-> old - ask]
    ELSE [ok |-> FALSE, a |-> a]

release_wakes_never(old) == FALSE

\* AtomicSemaphoreBase::release_impl: whether wake_all follows the fetch_add
release_wakes(old) == old = 0

acquire_all_ask_one(s) == 1

\* Semaphore::acquire_all: the permits it asks acquire_many for
acquire_all_ask(s) == s.max

\* The permits the guards of thread t stand for.
Held(t) == thread[t].guards + thread[t].all * sem.max
RECURSIVE SumHeld(_)
SumHeld(T) == IF T = {} THEN 0 ELSE LET t == CHOOSE x \in T : TRUE IN Held(t) + SumHeld(T \ {t})

\* The calls of the type system and the QueryCtx stay as they are.
SemaphoreOnly == UNCHANGED <<op, backend, arg, shape, ret, ctx>>

\* Semaphore::acquire: the call of base.acquire()
acquire(t) ==
    /\ thread[t].pc = "idle"
    /\ thread' = [thread EXCEPT ![t] = [@ EXCEPT !.pc = "wait", !.call = "acquire",
                                                 !.ask = 1, !.insufficient = 0]]
    /\ UNCHANGED <<sem, spurious>>
    /\ SemaphoreOnly

\* Semaphore::acquire_all: the call of base.acquire_many(max) and its first load
acquire_all(t) ==
    /\ thread[t].pc = "idle"
    /\ thread' = [thread EXCEPT ![t] =
           [@ EXCEPT !.pc = "wait", !.call = "acquire_many", !.ask = acquire_all_ask(sem),
                     !.insufficient = IF acquire_all_ask(sem) - 1 < sem.a
                                      THEN acquire_all_ask(sem) - 1 ELSE sem.a]]
    /\ UNCHANGED <<sem, spurious>>
    /\ SemaphoreOnly

\* Semaphore::try_acquire: the call of base.try_acquire() and its load
try_acquire(t) ==
    /\ thread[t].pc = "idle"
    /\ thread' = [thread EXCEPT ![t] = [@ EXCEPT !.pc = "cas", !.call = "try_acquire",
                                                 !.ask = 1, !.old = sem.a]]
    /\ UNCHANGED <<sem, spurious>>
    /\ SemaphoreOnly

\* atomic_wait::wait(&a, insufficient) in acquire and acquire_many: the thread
\* sleeps when a is the value, and goes on when it is not.
atomic_wait(t) ==
    /\ thread[t].pc = "wait"
    /\ thread' = [thread EXCEPT ![t].pc =
                     IF sem.a = thread[t].insufficient THEN "asleep" ELSE "load"]
    /\ UNCHANGED <<sem, spurious>>
    /\ SemaphoreOnly

\* atomic_wait::wait returns although no thread woke it.
wake_spuriously(t) ==
    /\ thread[t].pc = "asleep"
    /\ spurious < MaxSpurious
    /\ spurious' = spurious + 1
    /\ thread' = [thread EXCEPT ![t].pc = "load"]
    /\ UNCHANGED sem
    /\ SemaphoreOnly

\* a.load after the wait in acquire and acquire_many
load(t) ==
    /\ thread[t].pc = "load"
    /\ thread' = [thread EXCEPT ![t] = [@ EXCEPT !.pc = "cas", !.old = sem.a]]
    /\ UNCHANGED <<sem, spurious>>
    /\ SemaphoreOnly

\* What a thread is after try_acquire_impl returned r: with a guard and outside
\* the call when r is ok; else outside it (try_acquire returns None) or at the
\* wait of the next round of the loop, acquire_many waiting on the value loaded.
after_try_acquire_impl(th, r) ==
    IF r.ok
    THEN IF th.call = "acquire_many" THEN Outside(th.guards, th.all + 1)
         ELSE Outside(th.guards + 1, th.all)
    ELSE IF th.call = "try_acquire" THEN Outside(th.guards, th.all)
    ELSE [th EXCEPT !.pc = "wait", !.old = 0,
                    !.insufficient = IF th.call = "acquire_many" THEN th.old ELSE 0]

\* try_acquire_impl(old, ask) in acquire, try_acquire and acquire_many
compare_exchange_weak(t) ==
    /\ thread[t].pc = "cas"
    /\ \E fails_spuriously \in BOOLEAN :
          /\ fails_spuriously =>
                /\ spurious < MaxSpurious
                /\ try_acquire_impl(sem.a, thread[t].old, thread[t].ask, FALSE).ok
          /\ sem' = [sem EXCEPT !.a = try_acquire_impl(sem.a, thread[t].old, thread[t].ask,
                                                       fails_spuriously).a]
          /\ thread' = [thread EXCEPT ![t] =
                after_try_acquire_impl(thread[t],
                    try_acquire_impl(sem.a, thread[t].old, thread[t].ask, fails_spuriously))]
          /\ spurious' = IF fails_spuriously THEN spurious + 1 ELSE spurious
    /\ SemaphoreOnly

\* AtomicSemaphoreBase::release_impl(update): the fetch_add by a thread that
\* then holds the given guards.  (The counter is a u32; the counts of the model
\* stay far below 2^32, where the sum would wrap and the debug assertion fail.)
release_impl(t, update, guards, all) ==
    /\ sem' = [sem EXCEPT !.a = @ + update]
    /\ thread' = [thread EXCEPT ![t] =
           [Outside(guards, all) EXCEPT !.pc = IF release_wakes(sem.a) THEN "wake" ELSE "idle",
                                        !.call = IF release_wakes(sem.a) THEN "release" ELSE ""]]
    /\ UNCHANGED spurious
    /\ SemaphoreOnly

\* Drop of a PermitGuard: unguarded_release()
PermitGuard_drop(t) ==
    /\ thread[t].pc = "idle"
    /\ thread[t].guards > 0
    /\ release_impl(t, 1, thread[t].guards - 1, thread[t].all)

\* Drop of a PermitGuardAll: unguarded_release_all()
PermitGuardAll_drop(t) ==
    /\ thread[t].pc = "idle"
    /\ thread[t].all > 0
    /\ release_impl(t, sem.max, thread[t].guards, thread[t].all - 1)

\* Semaphore::unguarded_release: release_impl(1) by a thread that gives up no guard
unguarded_release(t) ==
    /\ thread[t].pc = "idle"
    /\ release_impl(t, 1, thread[t].guards, thread[t].all)

\* atomic_wait::wake_all(&a) in release_impl: every thread asleep on a goes on.
wake_all(t) ==
    /\ thread[t].pc = "wake"
    /\ thread' = [u \in Threads |->
                     IF u = t THEN Outside(thread[t].guards, thread[t].all)
                     ELSE IF thread[u].pc = "asleep" THEN [thread[u] EXCEPT !.pc = "load"]
                     ELSE thread[u]]
    /\ UNCHANGED <<sem, spurious>>
    /\ SemaphoreOnly

\* A new Semaphore of n permits and threads that hold nothing.
InitSemaphore ==
    /\ op = "idle"
    /\ ret = <<>>
    /\ backend = "Generic"
    /\ arg = <<>>
    /\ NoQueryCtx
    /\ \E n \in 1..MaxPermits :
          /\ sem = Semaphore_new(n)
          /\ shape = [family |-> "semaphore", count |-> n]
    /\ thread = [t \in Threads |-> Outside(0, 0)]
    /\ spurious = 0

\* Threads that take permits through guards and give them back by dropping them.
NextSemaphore ==
    \E t \in Threads :
        \/ acquire(t)
        \/ try_acquire(t)
        \/ acquire_all(t)
        \/ atomic_wait(t)
        \/ wake_spuriously(t)
        \/ load(t)
        \/ compare_exchange_weak(t)
        \/ PermitGuard_drop(t)
        \/ PermitGuardAll_drop(t)
        \/ wake_all(t)

SpecSemaphore == InitSemaphore /\ [][NextSemaphore]_vars

\* No thread is inside a call.
Quiescent == \A t \in Threads : thread[t].pc = "idle"

\* C15: the permits held at the same time never pass n, the counter never
\* underflows (it stays within 0..n) and, while no call is in progress, the
\* permits available and the permits held add up to n.
C15_PermitCountSafety ==
    shape.family = "semaphore" =>
        /\ SumHeld(Threads) <= shape.count
        /\ sem.a \in 0..shape.count
        /\ Quiescent => sem.a + SumHeld(Threads) = shape.count

\* Two threads hold the two permits while a third sleeps in acquire.
C15_Witness ==
    /\ shape.family = "semaphore"
    /\ shape.count = 2
    /\ sem.a = 0
    /\ thread["t1"].guards = 1
    /\ thread["t2"].guards = 1
    /\ thread["t3"].pc = "asleep"
    /\ thread["t3"].call = "acquire"

\* C16: a thread comes to hold a PermitGuardAll only in a step that takes all
\* max permits from the counter, and a call of acquire_all never takes another
\* amount; while a PermitGuardAll is alive the counter is 0, no other thread
\* holds a permit and none comes to hold one; the step that drops the guard
\* leaves all max permits available.
C16_AcquireAllExclusive ==
    /\ [](shape.family = "semaphore" =>
             \A t \in Threads :
                 thread[t].all > 0 =>
                     /\ sem.a = 0
                     /\ \A u \in Threads \ {t} : Held(u) = 0)
    /\ [][shape.family = "semaphore" =>
             \A t \in Threads :
                 /\ thread'[t].all > thread[t].all =>
                       /\ sem.a = sem.max
                       /\ sem'.a = 0
                 /\ (thread[t].call = "acquire_many" /\ sem'.a # sem.a /\ thread'[t] # thread[t]) =>
                       /\ sem'.a = sem.a - sem.max
                       /\ thread'[t].all = thread[t].all + 1
                 /\ (thread[t].all > 0 /\ thread'[t].all > 0) =>
                       \A u \in Threads \ {t} : Held(u)' = Held(u)
                 /\ thread'[t].all < thread[t].all => sem'.a = sem.max]_vars

\* A thread holds the PermitGuardAll of a Semaphore of two permits while a second
\* thread sleeps in acquire and a third is in try_acquire.
C16_Witness ==
    /\ shape.family = "semaphore"
    /\ shape.count = 2
    /\ thread["t1"].all = 1
    /\ sem.a = 0
    /\ thread["t2"].pc = "asleep"
    /\ thread["t2"].call = "acquire"
    /\ thread["t3"].pc = "cas"
    /\ thread["t3"].call = "try_acquire"

(***************************************************************************)
(* Semaphore: threads that hold permits and threads that wait for them     *)
(***************************************************************************)
\* A Semaphore of n permits of which the threads hold held[t] by PermitGuards:
\* the state after thread t returned from held[t] calls of acquire.
SemaphoreHeld(n, held) ==
    /\ op = "idle"
    /\ ret = <<>>
    /\ backend = "Generic"
    /\ arg = <<>>
    /\ NoQueryCtx
    /\ sem = [max |-> n, a |-> n - (held["t1"] + held["t2"] + held["t3"])]
    /\ shape = [family |-> "semaphore", count |-> n]
    /\ thread = [t \in Threads |-> Outside(held[t], 0)]
    /\ spurious = 0

\* The steps of a thread inside a call that the scheduler owes it (a spurious
\* wake-up is none of them).
step(t) ==
    \/ atomic_wait(t)
    \/ load(t)
    \/ compare_exchange_weak(t)
    \/ wake_all(t)

\* Thread t1 holds nothing; t2 and t3 hold some of the permits.
InitAcquireAll ==
    \E n \in 1..MaxPermits, held \in [Threads -> 0..MaxPermits] :
        /\ held["t1"] = 0
        /\ held["t2"] + held["t3"] <= n
        /\ SemaphoreHeld(n, held)

\* t1 calls acquire_all; t2 and t3 drop their guards and take no permit again.
NextAcquireAll ==
    \/ acquire_all("t1")
    \/ \E t \in {"t2", "t3"} : PermitGuard_drop(t)
    \/ \E t \in Threads :
          \/ atomic_wait(t)
          \/ wake_spuriously(t)
          \/ load(t)
          \/ compare_exchange_weak(t)
          \/ wake_all(t)

SpecAcquireAll ==
    InitAcquireAll /\ [][NextAcquireAll]_vars /\ \A t \in Threads : WF_vars(step(t))

\* C17: a thread inside acquire_all returns with the PermitGuardAll once all
\* max permits are available and no other thread takes a permit again.
C17_AcquireAllReturns ==
    (thread["t1"].call = "acquire_many" /\ sem.a = sem.max) ~> (thread["t1"].all = 1)

\* t1 called acquire_all while one of the two permits was held, and sleeps on
\* the value 1; the holder has dropped its guard, the fetch_add found 1 and woke
\* nobody: both permits are available, no thread is in a call but t1.
C17_AcquireAllAsleep ==
    /\ shape.count = 2
    /\ sem.a = sem.max
    /\ thread["t1"].pc = "asleep"
    /\ thread["t1"].call = "acquire_many"
    /\ thread["t1"].insufficient = 1
    /\ \A t \in {"t2", "t3"} : thread[t] = Outside(0, 0)
    /\ spurious = 0

\* The threads that call acquire, and the one that calls release.
Waiters == {"t1", "t2"}

\* The waiters hold nothing; t3 holds some of the permits, all of them when the
\* waiters are to find the count at 0.
InitWake ==
    \E n \in 1..MaxPermits, held \in [Threads -> 0..MaxPermits] :
        /\ \A t \in Waiters : held[t] = 0
        /\ held["t3"] <= n
        /\ SemaphoreHeld(n, held)

\* Each waiter calls acquire once and keeps the permit; t3 drops its guards.
NextWake ==
    \/ \E t \in Waiters : thread[t].guards = 0 /\ acquire(t)
    \/ PermitGuard_drop("t3")
    \/ \E t \in Threads :
          \/ atomic_wait(t)
          \/ wake_spuriously(t)
          \/ load(t)
          \/ compare_exchange_weak(t)
          \/ wake_all(t)

SpecWake == InitWake /\ [][NextWake]_vars /\ \A t \in Threads : WF_vars(step(t))

\* The waiters that returned from acquire, and those that called it.
Returned == {t \in Waiters : thread[t].guards > 0}
Called == {t \in Waiters : thread[t].pc # "idle" \/ thread[t].guards > 0}

\* C18: once i waiters have called acquire and j permits have been available
\* to them (found at the call or released since), at least min(i, j) of the
\* waiters return from acquire.
C18_NoLostWakeUp ==
    \A i \in 1..Cardinality(Waiters), j \in 1..MaxPermits :
        (Cardinality(Called) >= i /\ sem.a + Cardinality(Returned) >= j)
            ~> (Cardinality(Returned) >= IF i < j THEN i ELSE j)

\* Both waiters sleep in acquire on a count of 0, t3 released one of its two
\* permits and is about to wake them.
C18_Witness ==
    /\ shape.count = 2
    /\ \A t \in Waiters : thread[t].pc = "asleep" /\ thread[t].call = "acquire"
    /\ sem.a = 1
    /\ thread["t3"].pc = "wake"
    /\ thread["t3"].guards = 1

(***************************************************************************)
(* Semaphore: one thread that releases permits it never acquired           *)
(***************************************************************************)
MaxUnguardedReleases == 3

\* The calls of unguarded_release so far that undid no acquire.
Surplus == sem.a + SumHeld(Threads) - shape.count

\* t1 calls unguarded_release and try_acquire and keeps the guards it gets.
NextExpand ==
    \/ Surplus < MaxUnguardedReleases /\ unguarded_release("t1")
    \/ try_acquire("t1")
    \/ compare_exchange_weak("t1")
    \/ wake_all("t1")

SpecExpand == InitSemaphore /\ [][NextExpand]_vars

\* C19: every unguarded_release adds a permit, also past max, and max() stays
\* n; every try_acquire returns a permit while the count is not 0, and None
\* when it is: after k releases n + k calls in a row return a permit and the
\* next returns None.
C19_ReleaseExpands ==
    [][/\ Semaphore_max(sem') = shape.count
       /\ (thread["t1"].pc = "idle" /\ thread'["t1"].pc # "cas") => sem'.a = sem.a + 1
       /\ (thread["t1"].pc = "cas" /\ thread'["t1"].pc = "idle") =>
             IF sem.a > 0
             THEN thread'["t1"].guards = thread["t1"].guards + 1 /\ sem'.a = sem.a - 1
             ELSE thread'["t1"].guards = thread["t1"].guards /\ sem'.a = sem.a]_vars

\* Semaphore::new(1), one unguarded_release, and a try_acquire that returned
\* None on a spurious failure of compare_exchange_weak: both permits are there.
C19_TryAcquireFailedSpuriously ==
    /\ shape.count = 1
    /\ Surplus = 1
    /\ sem.a = 2
    /\ thread["t1"] = Outside(0, 0)
    /\ spurious = 1

\* Unless compare_exchange_weak fails spuriously, the calls do what C19 says.
C19_ExpandsUnlessSpurious ==
    [][spurious' = spurious =>
          /\ Semaphore_max(sem') = shape.count
          /\ (thread["t1"].pc = "idle" /\ thread'["t1"].pc # "cas") => sem'.a = sem.a + 1
          /\ (thread["t1"].pc = "cas" /\ thread'["t1"].pc = "idle") =>
                IF sem.a > 0
                THEN thread'["t1"].guards = thread["t1"].guards + 1 /\ sem'.a = sem.a - 1
                ELSE thread'["t1"].guards = thread["t1"].guards /\ sem'.a = sem.a]_vars

(***************************************************************************)
(* QueryCtx (crates/dbt-xdbc/src/query_ctx.rs)                             *)
(*                                                                         *)
(* ctx is [self, recv, panicked]: self is the QueryCtx the last call of    *)
(* the chain returned, recv the context that call was made on (None after  *)
(* new), panicked the name of the call that panicked ("" while none has).  *)
(* Utc::now() reads the wall clock: a reading is the one before it or a    *)
(* later one.                                                              *)
(***************************************************************************)
MaxChain == 4
AdapterTypes == {"fake"}
NodeIds == {"model.a", "model.b"}
Sqls == {"select 1", "select 2"}
Descs == {"abc", "123"}
ExecutionPhases == {"Unspecified", "Render", "Analyze", "Run"}

\* QueryCtx::create
create(adapter_type, node_unique_id, phase, sql, desc, now) ==
    [adapter_type |-> adapter_type, node_unique_id |-> node_unique_id, phase |-> phase,
     sql |-> sql, created_at |-> now, desc |-> desc]

\* QueryCtx::new
QueryCtx_new(adapter_type, now) == create(adapter_type, None, None, None, None, now)

with_node_id_reassign(self, node_unique_id, now) ==
    NoPanic(create(self.adapter_type, Some(node_unique_id), self.phase, self.sql, self.desc, now))

\* QueryCtx::with_node_id
with_node_id(self, node_unique_id, now) ==
    IF ~(self.node_unique_id = None) THEN Panic("assert")
    ELSE NoPanic(create(self.adapter_type, Some(node_unique_id), self.phase, self.sql,
                        self.desc, now))

\* QueryCtx::with_sql
with_sql(self, sql, now) ==
    NoPanic(create(self.adapter_type, self.node_unique_id, self.phase, Some(sql), self.desc, now))

\* QueryCtx::with_desc
with_desc(self, desc, now) ==
    IF ~(self.desc = None) THEN Panic("assert")
    ELSE NoPanic(create(self.adapter_type, self.node_unique_id, self.phase, self.sql,
                        Some(desc), now))

\* QueryCtx::with_phase
with_phase(self, phase, now) ==
    NoPanic(create(self.adapter_type, self.node_unique_id, Some(phase), self.sql, self.desc, now))

\* QueryCtx::node_id
node_id(self) == self.node_unique_id

\* QueryCtx::desc
desc(self) == self.desc

\* QueryCtx::new(adapter_type)
InitQueryCtx ==
    /\ op = "new"
    /\ ret = <<>>
    /\ NoSemaphore
    /\ backend = "Generic"
    /\ arg = <<>>
    /\ shape = [family |-> "query_ctx"]
    /\ \E adapter_type \in AdapterTypes :
          ctx = [self |-> QueryCtx_new(adapter_type, 0), recv |-> None, panicked |-> ""]

\* The next call of the chain, name(a), returned r or panicked.
Chained(name, a, r) ==
    /\ op' = name
    /\ arg' = a
    /\ ctx' = IF r.panic THEN [ctx EXCEPT !.panicked = name, !.recv = Some(ctx.self)]
              ELSE [ctx EXCEPT !.self = r.ty, !.recv = Some(ctx.self)]
    /\ UNCHANGED <<backend, shape, ret, sem, thread, spurious>>

\* A chain goes on while no call has panicked (and the clock is below MaxChain).
Chaining ==
    /\ shape.family = "query_ctx"
    /\ ctx.panicked = ""
    /\ ctx.self.created_at < MaxChain

\* Utc::now() in a call on self
Utc_now(self) == {self.created_at, self.created_at + 1}

CallWithNodeId ==
    /\ Chaining
    /\ \E id \in NodeIds, now \in Utc_now(ctx.self) :
          Chained("with_node_id", id, with_node_id(ctx.self, id, now))

CallWithSql ==
    /\ Chaining
    /\ \E sql \in Sqls, now \in Utc_now(ctx.self) :
          Chained("with_sql", sql, with_sql(ctx.self, sql, now))

CallWithDesc ==
    /\ Chaining
    /\ \E d \in Descs, now \in Utc_now(ctx.self) :
          Chained("with_desc", d, with_desc(ctx.self, d, now))

CallWithPhase ==
    /\ Chaining
    /\ \E phase \in ExecutionPhases, now \in Utc_now(ctx.self) :
          Chained("with_phase", phase, with_phase(ctx.self, phase, now))

SpecQueryCtx ==
    InitQueryCtx /\ [][CallWithNodeId \/ CallWithSql \/ CallWithDesc \/ CallWithPhase]_vars

\* C20: with_node_id panics on a context that has a node id and with_desc on
\* one that has a description; a call that does not panic leaves a node id
\* and a description that are Some as they are.
C20_WriteOnce ==
    [][shape.family = "query_ctx" =>
          /\ (op' = "with_node_id" /\ IsSome(node_id(ctx.self))) => ctx'.panicked = "with_node_id"
          /\ (op' = "with_desc" /\ IsSome(desc(ctx.self))) => ctx'.panicked = "with_desc"
          /\ (ctx'.panicked = "" /\ IsSome(node_id(ctx.self))) =>
                node_id(ctx'.self) = node_id(ctx.self)
          /\ (ctx'.panicked = "" /\ IsSome(desc(ctx.self))) =>
                desc(ctx'.self) = desc(ctx.self)]_vars

\* new("fake").with_desc("abc") ... .with_desc("123"): the second with_desc
\* panicked, and the calls between the two kept the description.
C20_Witness ==
    /\ shape.family = "query_ctx"
    /\ op = "with_desc"
    /\ ctx.panicked = "with_desc"
    /\ desc(ctx.self) = Some("abc")
    /\ node_id(ctx.self) = Some("model.a")
    /\ ctx.self.created_at = 3

\* The fields of a QueryCtx that with_sql passes on to create.
Copied(self) ==
    [adapter_type |-> self.adapter_type, node_unique_id |-> self.node_unique_id,
     phase |-> self.phase, desc |-> self.desc]

\* C21: with_sql(sql) does not panic and returns the context it was called on
\* with sql replaced by Some(sql): adapter_type, node_unique_id, phase, desc
\* and created_at are those of the receiver.
C21_WithSqlFrame ==
    (shape.family = "query_ctx" /\ op = "with_sql") =>
        /\ ctx.panicked = ""
        /\ ctx.self = [Unwrap(ctx.recv) EXCEPT !.sql = Some(arg)]

\* with_sql("select 2") on a context whose sql was "select 1" returned a
\* context with the new sql and a created_at that is not the receiver's.
C21_CreatedAtRefreshed ==
    /\ shape.family = "query_ctx"
    /\ op = "with_sql"
    /\ ctx.panicked = ""
    /\ Unwrap(ctx.recv).sql = Some("select 1")
    /\ ctx.self.sql = Some("select 2")
    /\ ctx.self.created_at # Unwrap(ctx.recv).created_at

\* What holds of with_sql: it never panics, sets sql to the given query and
\* copies adapter_type, node_unique_id, phase and desc; created_at is a new
\* reading of the clock.
C21_FrameExceptCreatedAt ==
    (shape.family = "query_ctx" /\ op = "with_sql") =>
        /\ ctx.panicked = ""
        /\ ctx.self.sql = Some(arg)
        /\ Copied(ctx.self) = Copied(Unwrap(ctx.recv))
        /\ ctx.self.created_at \in Utc_now(Unwrap(ctx.recv))

(***************************************************************************)
(* TIME and TIMESTAMP with every time-zone clause, alone and nested         *)
(***************************************************************************)
TimeHeads == {"TIME", "TIMETZ", "TIMESTAMP"}
TimePrecisionTexts == {"", "(0)", "(6)"}
TimeZoneClauses == {"", " WITH TIME ZONE", " WITHOUT TIME ZONE", " WITH LOCAL TIME ZONE"}
Nestings == {"top", "array", "struct", "map", "postfix"}

\* The type string of a nesting around the type string inner.
NestedText(nesting, inner) ==
    CASE nesting = "top" -> inner
      [] nesting = "array" -> "ARRAY<" \o inner \o ">"
      [] nesting = "struct" -> "STRUCT<a INT, b " \o inner \o ">"
      [] nesting = "map" -> "MAP<VARCHAR, " \o inner \o ">"
      [] nesting = "postfix" -> inner \o "[]"

\* The type the parser makes of NestedText(nesting, inner) when it makes t of
\* inner: the postfix [] wraps on the Postgres family and Generic only.
NestedType(nesting, b, t) ==
    CASE nesting = "top" -> t
      [] nesting = "array" -> Array(Some(t))
      [] nesting = "struct" ->
           Struct(Some(<<<<Plain("a"), Integer, TRUE>>, <<Plain("b"), t, TRUE>>>>))
      [] nesting = "map" -> Map(Some(<<Varchar(None), t>>))
      [] nesting = "postfix" ->
           IF b \in PostgresLike \cup {"Generic"} THEN Array(Some(t)) ELSE t

InitTime ==
    /\ op = "idle"
    /\ ret = <<>>
    /\ NoSemaphore
    /\ NoQueryCtx
    /\ backend \in Backends
    /\ \E head \in TimeHeads, p \in TimePrecisionTexts, clause \in TimeZoneClauses,
          nesting \in Nestings :
          /\ arg = NestedText(nesting, head \o p \o clause)
          /\ shape = [family |-> "time_text", head |-> head, precision |-> p,
                      clause |-> clause, nesting |-> nesting]

SpecTime == InitTime /\ [][CallParse]_vars

\* No Time anywhere in the type t has the time-zone spec Unspecified.
RECURSIVE NoUnspecifiedTime(_)
NoUnspecifiedTimeInFields(fields) ==
    \A i \in 1..Len(fields) : NoUnspecifiedTime(fields[i][2])

NoUnspecifiedTime(t) ==
    CASE t.tag = "Time" -> t.time_zone_spec # "Unspecified"
      [] t.tag = "Array" -> IsSome(t.inner) => NoUnspecifiedTime(Unwrap(t.inner))
      [] t.tag = "Struct" -> IsSome(t.fields) => NoUnspecifiedTimeInFields(Unwrap(t.fields))
      [] t.tag = "Map" ->
           IsSome(t.kv) =>
               NoUnspecifiedTime(Unwrap(t.kv)[1]) /\ NoUnspecifiedTime(Unwrap(t.kv)[2])
      [] OTHER -> TRUE

\* The precision a TimePrecisionTexts stands for.
TimePrecisionOf(p) == CASE p = "" -> None [] p = "(0)" -> Some(0) [] p = "(6)" -> Some(6)

\* C22: on every dialect, alone and nested, no type the parser returns holds
\* a Time whose time-zone spec is Unspecified: TIME without a time-zone
\* clause gives Without and TIMETZ gives With; TIMESTAMP without a time-zone
\* clause gives a Timestamp whose time-zone spec is Unspecified.
C22_DefaultTimeZoneSpec ==
    (shape.family = "time_text" /\ op = "parse") =>
        /\ ret.ok => NoUnspecifiedTime(ret.ty)
        /\ (shape.head = "TIME" /\ shape.clause = "") =>
               /\ ret.ok
               /\ ret.ty = NestedType(shape.nesting, backend,
                                      Time(TimePrecisionOf(shape.precision), "Without"))
        /\ (shape.head = "TIMETZ" /\ shape.precision = "" /\ shape.clause = "") =>
               /\ ret.ok
               /\ ret.ty = NestedType(shape.nesting, backend, Time(None, "With"))
        /\ (shape.head = "TIMESTAMP" /\ shape.clause = "") =>
               /\ ret.ok
               /\ ret.ty = NestedType(shape.nesting, backend,
                                      Timestamp(TimePrecisionOf(shape.precision),
                                                "Unspecified"))

\* MAP<VARCHAR, TIME(6)> on Snowflake: the TIME of the map's values is Without.
C22_Witness ==
    /\ shape.family = "time_text"
    /\ op = "parse"
    /\ backend = "Snowflake"
    /\ arg = "MAP<VARCHAR, TIME(6)>"
    /\ ret.ok
    /\ ret.ty = Map(Some(<<Varchar(None), Time(Some(6), "Without")>>))

(***************************************************************************)
(* INTERVAL qualifiers followed by a parenthesized precision               *)
(***************************************************************************)
DecoratedForms == {"single", "to"}
DecoratedStarts == {"Day", "Hour"}
DecoratedNestings == {"top", "array"}

\* INTERVAL <field>(p) and INTERVAL <start> TO <field>(p)
DecoratedText(form, start, field, p) ==
    "INTERVAL "
    \o (IF form = "to" THEN DateTimeFieldDisplay(start) \o " TO " ELSE "")
    \o DateTimeFieldDisplay(field) \o "(" \o ToString(p) \o ")"

InitDecorated ==
    /\ op = "idle"
    /\ ret = <<>>
    /\ NoSemaphore
    /\ NoQueryCtx
    /\ backend \in Backends
    /\ \E form \in DecoratedForms, start \in DecoratedStarts, field \in DateTimeFields,
          p \in Precisions, nesting \in DecoratedNestings :
          /\ form = "single" => start = "Day"
          /\ arg = NestedText(nesting, DecoratedText(form, start, field, p))
          /\ shape = [family |-> "interval_decorated", form |-> form, start |-> start,
                      field |-> field, p |-> p, nesting |-> nesting]

SpecDecorated == InitDecorated /\ [][CallParse]_vars

\* The qualifier of shape's input with chosen as its chosen field.
DecoratedQualifier(chosen) ==
    IF shape.form = "to" THEN Some(<<shape.start, Some(chosen)>>) ELSE Some(<<chosen, None>>)

\* The tokens of "(p)"
PrecisionTokens(p) == <<LParen, Word(ToString(p)), RParen>>

\* C23: after INTERVAL, with a chosen field (the single field, or the end
\* field after TO) other than SECOND, the parser reads a following (p) and
\* throws it away: the parse succeeds with the field unchanged and nothing
\* of the (p) left unread; with SECOND the precision picks the field.
C23_DecorationPrecisionDiscarded ==
    (shape.family = "interval_decorated" /\ op = "parse") =>
        /\ ret.ok
        /\ ret.rest = <<>>
        /\ ret.ty = NestedType(shape.nesting, backend,
                               Interval(DecoratedQualifier(
                                   IF shape.field = "Second" THEN SubSecondField(shape.p)
                                   ELSE shape.field)))

\* ARRAY<INTERVAL DAY(3)>: the ( after DAY is not read by the INTERVAL arm and
\* the ARRAY arm, which expects >, fails on it.
C23_PrecisionNotConsumed ==
    /\ shape.family = "interval_decorated"
    /\ op = "parse"
    /\ arg = "ARRAY<INTERVAL DAY(3)>"
    /\ ~ret.ok
    /\ ret.err = Unexpected(LParen)

\* What the parser does: with SECOND the precision is read and picks the
\* field; with another field the (p) is left unread, which a top-level
\* parse returns as unread tokens and a nested parse fails on.
C23_PrecisionReadForSecondOnly ==
    (shape.family = "interval_decorated" /\ op = "parse") =>
        IF shape.field = "Second"
        THEN /\ ret.ok
             /\ ret.rest = <<>>
             /\ ret.ty = NestedType(shape.nesting, backend,
                                    Interval(DecoratedQualifier(SubSecondField(shape.p))))
        ELSE IF shape.nesting = "top"
        THEN /\ ret.ok
             /\ ret.rest = PrecisionTokens(shape.p)
             /\ ret.ty = Interval(DecoratedQualifier(shape.field))
        ELSE /\ ~ret.ok
             /\ ret.err = Unexpected(LParen)

(***************************************************************************)
(* The two grammars of INTERVAL: a precision, and a named sub-second unit  *)
(***************************************************************************)
\* The type string that names the unit the precision p of IntervalText stands for.
NamedUnitText(form, start, p) ==
    IF form = "to_second"
    THEN "INTERVAL " \o DateTimeFieldDisplay(start) \o " TO "
         \o DateTimeFieldDisplay(SubSecondField(p))
    ELSE "INTERVAL " \o DateTimeFieldDisplay(SubSecondField(p))

\* arg is the pair of the two spellings.
InitIntervalPair ==
    /\ op = "idle"
    /\ ret = <<>>
    /\ NoSemaphore
    /\ NoQueryCtx
    /\ backend \in Backends
    /\ \E form \in IntervalForms, start \in DateTimeFields, p \in Precisions :
          /\ form # "to_second" => start = "Second"
          /\ arg = <<IntervalText(form, start, p), NamedUnitText(form, start, p)>>
          /\ shape = [family |-> "interval_pair", form |-> form, start |-> start, p |-> p]

\* SqlType::parse(backend, _) of both spellings
CallParsePair ==
    /\ op = "idle"
    /\ shape.family = "interval_pair"
    /\ op' = "parse_pair"
    /\ ret' = [parsed |-> <<parse(backend, arg[1]), parse(backend, arg[2])>>]
    /\ UNCHANGED <<backend, arg, shape, sem, thread, spurious, ctx>>

\* to_string(d) of both parsed types, for a dialect d
CallToStringPair ==
    /\ op = "parse_pair"
    /\ ret.parsed[1].ok /\ ret.parsed[2].ok
    /\ op' = "to_string_pair"
    /\ \E d \in Backends :
          ret' = [dialect |-> d,
                  types |-> <<ret.parsed[1].ty, ret.parsed[2].ty>>,
                  strings |-> <<to_string(ret.parsed[1].ty, d), to_string(ret.parsed[2].ty, d)>>]
    /\ UNCHANGED <<backend, arg, shape, sem, thread, spurious, ctx>>

\* SqlType::parse(d, _) of both rendered strings
CallParseRenderedPair ==
    /\ op = "to_string_pair"
    /\ op' = "parse_rendered_pair"
    /\ ret' = [dialect |-> ret.dialect, types |-> ret.types, strings |-> ret.strings,
               reparsed |-> <<parse(ret.dialect, ret.strings[1]),
                              parse(ret.dialect, ret.strings[2])>>]
    /\ UNCHANGED <<backend, arg, shape, sem, thread, spurious, ctx>>

SpecIntervalPair ==
    InitIntervalPair /\ [][CallParsePair \/ CallToStringPair \/ CallParseRenderedPair]_vars

\* C24: for every start field, precision p and dialect, INTERVAL(p),
\* INTERVAL SECOND(p) and INTERVAL <start> TO SECOND(p) parse, as does the
\* spelling that names the unit of p, and the two types render to the same
\* string under every dialect; the rendering of the Postgres family parses
\* back, under that dialect, to the type with the named field.
C24_IntervalGrammarsEquivalent ==
    shape.family = "interval_pair" =>
        /\ op = "parse_pair" => ret.parsed[1].ok /\ ret.parsed[2].ok
        /\ op = "to_string_pair" => ret.strings[1] = ret.strings[2]
        /\ (op = "parse_rendered_pair" /\ ret.dialect \in PostgresLike) =>
               /\ ret.reparsed[1].ok
               /\ ret.reparsed[1].ty = ret.types[2]
               /\ ret.reparsed[1].ty = Interval(Some(
                      IF shape.form = "to_second"
                      THEN <<shape.start, Some(SubSecondField(shape.p))>>
                      ELSE <<SubSecondField(shape.p), None>>))

\* INTERVAL HOUR TO SECOND(7) and INTERVAL HOUR TO MICROSECOND, parsed on
\* Snowflake, both render on Redshift to INTERVAL HOUR TO SECOND(6), which
\* parses back to Interval(Hour, Microsecond).
C24_Witness ==
    /\ shape.family = "interval_pair"
    /\ op = "parse_rendered_pair"
    /\ backend = "Snowflake"
    /\ arg = <<"INTERVAL HOUR TO SECOND(7)", "INTERVAL HOUR TO MICROSECOND">>
    /\ ret.dialect = "Redshift"
    /\ ret.strings = <<"INTERVAL HOUR TO SECOND(6)", "INTERVAL HOUR TO SECOND(6)">>
    /\ ret.reparsed[1].ok
    /\ ret.reparsed[1].ty = Interval(Some(<<"Hour", Some("Microsecond")>>))

(***************************************************************************)
(* Types followed by [ ] pairs, alone and nested                           *)
(***************************************************************************)
MaxBrackets == 3
PostfixBases == {"INT", "VARCHAR(255)", "JSON", "TIMESTAMP WITH TIME ZONE", "ARRAY", "uuid"}
\* What follows the pairs: nothing, or a [ that no ] follows at once.
PostfixTails == {"", "[", "[5]", "[,"}
PostfixNestings == {"top", "array", "struct", "map"}

\* The type of a base without brackets.
PostfixBaseType(base) ==
    CASE base = "INT" -> Integer
      [] base = "VARCHAR(255)" -> Varchar(Some(255))
      [] base = "JSON" -> Json
      [] base = "TIMESTAMP WITH TIME ZONE" -> Timestamp(None, "With")
      [] base = "ARRAY" -> Array(None)
      [] base = "uuid" -> Other("uuid")

RECURSIVE Brackets(_)
Brackets(k) == IF k = 0 THEN "" ELSE "[]" \o Brackets(k - 1)

RECURSIVE WrapArrays(_, _)
WrapArrays(k, t) == IF k = 0 THEN t ELSE WrapArrays(k - 1, Array(Some(t)))

\* The type at the place of a nesting where NestedText put its inner type.
NestedInner(nesting, t) ==
    CASE nesting = "top" -> t
      [] nesting = "array" -> Unwrap(t.inner)
      [] nesting = "struct" -> Unwrap(t.fields)[2][2]
      [] nesting = "map" -> Unwrap(t.kv)[2]

InitPostfix ==
    /\ op = "idle"
    /\ ret = <<>>
    /\ NoSemaphore
    /\ NoQueryCtx
    /\ backend \in Backends
    /\ \E base \in PostfixBases, k \in 0..MaxBrackets, tail \in PostfixTails,
          nesting \in PostfixNestings :
          /\ arg = NestedText(nesting, base \o Brackets(k) \o tail)
          /\ shape = [family |-> "postfix", base |-> base, k |-> k, tail |-> tail,
                      nesting |-> nesting]

SpecPostfix == InitPostfix /\ [][CallParse]_vars

\* C25: on Postgres, Redshift, RedshiftODBC and Generic a type followed by k
\* pairs [ ] parses to k nested Array(Some(..)) around the type, alone, as a
\* struct field type and as an ARRAY or MAP element type, and a [ that no ]
\* follows at once is an Unexpected or UnexpectedEndOfInput error; on the
\* other dialects a following [ never wraps the type in an Array.
C25_PostfixArrays ==
    (shape.family = "postfix" /\ op = "parse") =>
        IF backend \in PostgresLike \cup {"Generic"}
        THEN IF shape.tail = ""
             THEN /\ ret.ok
                  /\ ret.ty = NestedType(shape.nesting, backend,
                                         WrapArrays(shape.k, PostfixBaseType(shape.base)))
             ELSE /\ ~ret.ok
                  /\ ret.err[1] \in {"Unexpected", "UnexpectedEndOfInput"}
        ELSE ret.ok =>
                \/ NestedInner(shape.nesting, ret.ty) = PostfixBaseType(shape.base)
                \/ NestedInner(shape.nesting, ret.ty).tag = "Other"

\* uuid[] on Postgres: the unknown word takes the [ and the ] into its
\* payload, and no Array is made.
C25_BracketsCaptured ==
    /\ shape.family = "postfix"
    /\ op = "parse"
    /\ backend = "Postgres"
    /\ arg = "uuid[]"
    /\ ret.ok
    /\ ret.ty = Other("uuid [ ]")

\* What holds: the claim for every type that is not an unknown word.
C25_RecognizedTypes ==
    (shape.family = "postfix" /\ op = "parse" /\ shape.base # "uuid") =>
        IF backend \in PostgresLike \cup {"Generic"}
        THEN IF shape.tail = ""
             THEN /\ ret.ok
                  /\ ret.ty = NestedType(shape.nesting, backend,
                                         WrapArrays(shape.k, PostfixBaseType(shape.base)))
             ELSE /\ ~ret.ok
                  /\ ret.err[1] \in {"Unexpected", "UnexpectedEndOfInput"}
        ELSE ret.ok => NestedInner(shape.nesting, ret.ty) = PostfixBaseType(shape.base)

(***************************************************************************)
(* Types that start with a punctuation token                               *)
(***************************************************************************)
LeadingTokens == {LParen, RParen, LBracket, RBracket, LAngle, RAngle, Comma}
\* What follows the leading token.
LeadingRests == {"", ")", "a INT)", "a INT, b VARCHAR NOT NULL)", "INT", "a INT>"}

\* The fields of the anonymous struct that ( and a rest spell, where they do.
ParenStructFields(rest) ==
    CASE rest = ")" -> Some(<<>>)
      [] rest = "a INT)" -> Some(<<<<Plain("a"), Integer, TRUE>>>>)
      [] rest = "a INT, b VARCHAR NOT NULL)" ->
           Some(<<<<Plain("a"), Integer, TRUE>>, <<Plain("b"), Varchar(None), FALSE>>>>)
      [] OTHER -> None

InitLeadingToken ==
    /\ op = "idle"
    /\ ret = <<>>
    /\ NoSemaphore
    /\ NoQueryCtx
    /\ backend \in Backends
    /\ \E tok \in LeadingTokens, rest \in LeadingRests, nesting \in PostfixNestings :
          /\ arg = NestedText(nesting, TokenDisplay(tok) \o rest)
          /\ shape = [family |-> "leading_token", tok |-> tok, rest |-> rest,
                      nesting |-> nesting]

SpecLeadingToken == InitLeadingToken /\ [][CallParse]_vars

\* C26: a type that starts with ( is parsed as an anonymous struct on
\* Postgres, Redshift, RedshiftODBC and Generic, and returns Unexpected(()
\* on Snowflake, BigQuery, Databricks, DatabricksODBC and Salesforce; a type
\* that starts with ), [, ], <, > or a comma returns Unexpected of that token
\* on every dialect.
C26_LeadingPunctuation ==
    (shape.family = "leading_token" /\ op = "parse") =>
        IF shape.tok = LParen /\ backend \in PostgresLike \cup {"Generic"}
        THEN IF IsSome(ParenStructFields(shape.rest))
             THEN /\ ret.ok
                  /\ ret.ty = NestedType(shape.nesting, backend,
                                         Struct(ParenStructFields(shape.rest)))
             ELSE /\ ~ret.ok
                  /\ ret.err # Unexpected(LParen)
        ELSE /\ ~ret.ok
             /\ ret.err = Unexpected(shape.tok)

\* MAP<VARCHAR, (a INT, b VARCHAR NOT NULL)> on Redshift: the map's values
\* are the anonymous struct.
C26_Witness ==
    /\ shape.family = "leading_token"
    /\ op = "parse"
    /\ backend = "Redshift"
    /\ arg = "MAP<VARCHAR, (a INT, b VARCHAR NOT NULL)>"
    /\ ret.ok
    /\ ret.ty = Map(Some(<<Varchar(None),
                           Struct(Some(<<<<Plain("a"), Integer, TRUE>>,
                                         <<Plain("b"), Varchar(None), FALSE>>>>))>>))

(***************************************************************************)
(* INTERVAL <start> TO and what follows it                                 *)
(***************************************************************************)
\* What follows TO that is no date/time field: nothing, a word, a number,
\* a quoted field name, punctuation.
NonFieldFollowers == {"", " FOO", " TO", " 3", " \"DAY\"", " (3)", " ,", " ]"}
FieldFollowers == {" " \o DateTimeFieldDisplay(f) : f \in DateTimeFields} \cup {" hour"}

\* The date/time field a follower names.
FollowerField(follower) ==
    IF follower = " hour" THEN "Hour"
    ELSE CHOOSE f \in DateTimeFields : follower = " " \o DateTimeFieldDisplay(f)

InitIntervalTo ==
    /\ op = "idle"
    /\ ret = <<>>
    /\ NoSemaphore
    /\ NoQueryCtx
    /\ backend \in Backends
    /\ \E start \in DateTimeFields, follower \in NonFieldFollowers \cup FieldFollowers,
          nesting \in PostfixNestings :
          /\ arg = NestedText(nesting,
                              "INTERVAL " \o DateTimeFieldDisplay(start) \o " TO" \o follower)
          /\ shape = [family |-> "interval_to", start |-> start, follower |-> follower,
                      nesting |-> nesting]

SpecIntervalTo == InitIntervalTo /\ [][CallParse]_vars

\* C27: after INTERVAL <start> TO the next token must be one of the nine
\* date/time field names, in any case; with any other token, or at the end
\* of the input, SqlType::parse fails with ExpectedDateTimeField, reported
\* with the input it was given, and returns no type.
C27_ExpectedDateTimeField ==
    (shape.family = "interval_to" /\ op = "parse") =>
        IF shape.follower \in FieldFollowers
        THEN /\ ret.ok
             /\ ret.ty = NestedType(shape.nesting, backend,
                                    Interval(Some(<<shape.start,
                                                    Some(FollowerField(shape.follower))>>)))
        ELSE /\ ~ret.ok
             /\ ret.err = ExpectedDateTimeField
             /\ ret.message_input = arg
             /\ DOMAIN ret = {"ok", "err", "message_input"}

\* STRUCT<a INT, b INTERVAL DAY TO>: the > is no date/time field.
C27_Witness ==
    /\ shape.family = "interval_to"
    /\ op = "parse"
    /\ arg = "STRUCT<a INT, b INTERVAL DAY TO>"
    /\ ~ret.ok
    /\ ret.err = ExpectedDateTimeField
    /\ ret.message_input = "STRUCT<a INT, b INTERVAL DAY TO>"

(***************************************************************************)
(* Arrow fields without a type string in their metadata                    *)
(***************************************************************************)
TimeUnits == {"Second", "Millisecond", "Microsecond", "Nanosecond"}
ArrowUnitTypes ==
    {"Null", "Boolean", "Int8", "UInt8", "Int16", "UInt16", "Int32", "UInt32", "Int64",
     "UInt64", "Float16", "Float32", "Float64", "Utf8View", "Utf8", "LargeUtf8", "Binary",
     "LargeBinary", "BinaryView", "FixedSizeBinary", "Date32", "Date64", "List", "LargeList",
     "ListView", "LargeListView", "FixedSizeList", "Union", "Map"}

\* The Arrow data types that hold no other data type the mapping looks at.
ArrowLeafTypes ==
    {ArrowUnit(dt) : dt \in ArrowUnitTypes}
    \cup {ArrowDecimal(dt, 38, 2) : dt \in {"Decimal128", "Decimal256"}}
    \cup {ArrowTimed("Time32", unit) : unit \in {"Second", "Millisecond"}}
    \cup {ArrowTimed("Time64", unit) : unit \in {"Microsecond", "Nanosecond"}}
    \cup {ArrowTimestamp(unit, tz) : unit \in TimeUnits, tz \in {None, Some("UTC")}}
    \cup {ArrowTimed("Duration", unit) : unit \in TimeUnits}
    \cup {ArrowInterval(unit) : unit \in {"YearMonth", "DayTime", "MonthDayNano"}}

ArrowNestings == {"top", "struct", "dictionary", "run_end_encoded"}

\* The data type of a nesting around the data type leaf.
NestedArrowType(nesting, leaf, is_nullable) ==
    CASE nesting = "top" -> leaf
      [] nesting = "struct" ->
           ArrowStruct(<<Field("a", ArrowUnit("Int32"), TRUE, <<>>),
                         Field("b", leaf, is_nullable, <<>>)>>)
      [] nesting = "dictionary" -> ArrowDictionary(ArrowUnit("Int32"), leaf)
      [] nesting = "run_end_encoded" ->
           ArrowRunEndEncoded(Field("values", leaf, is_nullable, <<>>))

\* The type the mapping makes of NestedArrowType when it makes t of leaf.
NestedSqlType(nesting, t, is_nullable) ==
    IF nesting = "struct"
    THEN Struct(Some(<<<<Plain("a"), Integer, TRUE>>, <<Plain("b"), t, is_nullable>>>>))
    ELSE t

\* Metadata that holds no key of any dialect's list.
NoTypeMetadatas == {<<>>, [k \in {"comment"} |-> "INT NOT NULL"]}

InitArrowField ==
    /\ op = "idle"
    /\ ret = <<>>
    /\ NoSemaphore
    /\ NoQueryCtx
    /\ backend \in Backends
    /\ \E leaf \in ArrowLeafTypes, nesting \in ArrowNestings, is_nullable \in BOOLEAN,
          metadata \in NoTypeMetadatas :
          /\ arg = Field("f", NestedArrowType(nesting, leaf, is_nullable), is_nullable, metadata)
          /\ shape = [family |-> "arrow_field", leaf |-> leaf, nesting |-> nesting]

SpecArrowField == InitArrowField /\ [][CallFromField]_vars

\* C28: from_field on a field without type metadata returns a SqlType for
\* every Arrow data type, Duration included, alone and inside a struct, a
\* dictionary and a run-end-encoded type, and never panics; timestamp(unit,
\* tz) gives a Timestamp of precision None, 3, 6, 9 for s, ms, us, ns that is
\* With when tz is present and Without when it is not.
C28_FromArrowTotal ==
    (shape.family = "arrow_field" /\ op = "from_field") =>
        /\ ret.kind = "Ok"
        /\ shape.leaf.dt = "Timestamp" =>
               ret.ty = NestedSqlType(shape.nesting,
                            Timestamp(CASE shape.leaf.unit = "Second" -> None
                                        [] shape.leaf.unit = "Millisecond" -> Some(3)
                                        [] shape.leaf.unit = "Microsecond" -> Some(6)
                                        [] shape.leaf.unit = "Nanosecond" -> Some(9),
                                      IF IsSome(shape.leaf.tz) THEN "With" ELSE "Without"),
                            arg.nullable)

\* A struct with a field of type Duration(Millisecond): todo!() panics.
C28_DurationPanics ==
    /\ shape.family = "arrow_field"
    /\ op = "from_field"
    /\ shape.nesting = "struct"
    /\ shape.leaf = ArrowTimed("Duration", "Millisecond")
    /\ ret.kind = "Panic"
    /\ ret.what = "todo"

\* What holds: the call panics exactly when the data type is, or holds, a
\* Duration, and the timestamps map as claimed.
C28_TotalExceptDuration ==
    (shape.family = "arrow_field" /\ op = "from_field") =>
        /\ ret.kind = (IF shape.leaf.dt = "Duration" THEN "Panic" ELSE "Ok")
        /\ shape.leaf.dt = "Timestamp" =>
               ret.ty = NestedSqlType(shape.nesting,
                            Timestamp(TimeUnitPrecision(shape.leaf.unit),
                                      IF IsSome(shape.leaf.tz) THEN "With" ELSE "Without"),
                            arg.nullable)

(***************************************************************************)
(* Pairs of Timestamps, rendered and asked whether they are with time zone *)
(***************************************************************************)
PairPrecisions == {None, Some(3), Some(6)}
PairTimestamps == {Timestamp(p, tz) : p \in PairPrecisions, tz \in TimeZoneSpecs}

\* TimeZoneSpec::write_single_token_suffix: its debug_assert! fails
write_single_token_suffix_asserts(tz, b) ==
    \/ b = "BigQuery" /\ tz \notin {"Without", "Unspecified"}
    \/ b \in PostgresLike /\ tz = "Local"
    \/ b \in DatabricksLike /\ tz = "Local"

\* SqlType::write: the arms of Timestamp that call write_single_token_suffix
timestamp_single_token(t, b) ==
    \/ b = "Snowflake"
    \/ b \in PostgresLike /\ ~IsSome(t.precision)
    \/ b \in DatabricksLike

\* SqlType::to_string of a Timestamp: the string, or the panic of a failed
\* debug_assert! in a build that has debug assertions
timestamp_to_string(t, b, debug_assertions) ==
    IF debug_assertions /\ timestamp_single_token(t, b)
          /\ write_single_token_suffix_asserts(t.time_zone_spec, b)
    THEN [panic |-> TRUE, what |-> "debug_assert"]
    ELSE [panic |-> FALSE, value |-> to_string(t, b)]

\* arg is a pair of Timestamps.
InitTimestampPair ==
    /\ op = "idle"
    /\ ret = <<>>
    /\ NoSemaphore
    /\ NoQueryCtx
    /\ backend \in Backends
    /\ arg \in PairTimestamps \X PairTimestamps
    /\ \E debug_assertions \in BOOLEAN :
          shape = [family |-> "timestamp_pair", debug_assertions |-> debug_assertions]

\* to_string(backend) of both
CallToStringBoth ==
    /\ op = "idle"
    /\ shape.family = "timestamp_pair"
    /\ op' = "to_string_both"
    /\ ret' = [strings |-> <<timestamp_to_string(arg[1], backend, shape.debug_assertions),
                             timestamp_to_string(arg[2], backend, shape.debug_assertions)>>]
    /\ UNCHANGED <<backend, arg, shape, sem, thread, spurious, ctx>>

\* time_zone_spec.is_with_time_zone(backend) of both, after both were rendered
CallIsWithTimeZoneBoth ==
    /\ op = "to_string_both"
    /\ ~ret.strings[1].panic /\ ~ret.strings[2].panic
    /\ op' = "is_with_time_zone_both"
    /\ ret' = [strings |-> ret.strings,
               with_tz |-> <<is_with_time_zone(arg[1].time_zone_spec, backend,
                                               shape.debug_assertions),
                             is_with_time_zone(arg[2].time_zone_spec, backend,
                                               shape.debug_assertions)>>]
    /\ UNCHANGED <<backend, arg, shape, sem, thread, spurious, ctx>>

SpecTimestampPair == InitTimestampPair /\ [][CallToStringBoth \/ CallIsWithTimeZoneBoth]_vars

\* Two calls of is_with_time_zone ended the same way.
SameOutcome(a, b) == (a.panic /\ b.panic) \/ (~a.panic /\ ~b.panic /\ a.value = b.value)

\* C29: on every backend, DatabricksODBC as well as Databricks, and for
\* every precision, two Timestamps that render to the same string under the
\* backend have the same is_with_time_zone result under it.
C29_SameStringSameTimeZone ==
    (shape.family = "timestamp_pair" /\ op = "is_with_time_zone_both") =>
        (ret.strings[1].value = ret.strings[2].value =>
            SameOutcome(ret.with_tz[1], ret.with_tz[2]))

\* On DatabricksODBC Timestamp{With} and Timestamp{Unspecified} both render
\* as TIMESTAMP; the first is with a time zone and the second is not.
C29_DatabricksODBCDiffers ==
    /\ shape.family = "timestamp_pair"
    /\ op = "is_with_time_zone_both"
    /\ backend = "DatabricksODBC"
    /\ arg = <<Timestamp(None, "With"), Timestamp(Some(6), "Unspecified")>>
    /\ ret.strings[1].value = "TIMESTAMP"
    /\ ret.strings[2].value = "TIMESTAMP"
    /\ ret.with_tz[1] = [panic |-> FALSE, value |-> TRUE]
    /\ ret.with_tz[2] = [panic |-> FALSE, value |-> FALSE]

\* What holds: the claim on every backend but DatabricksODBC.
C29_ExceptDatabricksODBC ==
    (shape.family = "timestamp_pair" /\ op = "is_with_time_zone_both"
        /\ backend # "DatabricksODBC") =>
        (ret.strings[1].value = ret.strings[2].value =>
            SameOutcome(ret.with_tz[1], ret.with_tz[2]))

(***************************************************************************)
(* Struct field lists: commas and closers                                  *)
(***************************************************************************)
StructOpeners == {"STRUCT<", "("}
StructClosers == {RAngle, RParen}
\* Well-formed lists, and lists with a trailing, a leading and a doubled comma.
StructBodies ==
    {"", "a INT", "a INT, b VARCHAR NOT NULL", "a INT,", "a INT, b VARCHAR NOT NULL,",
     ",", ",a INT", "a INT,, b VARCHAR NOT NULL"}
TrailingCommaBodies == {"a INT,", "a INT, b VARCHAR NOT NULL,"}

\* The closer that belongs to an opener.
CloserOf(opener) == IF opener = "(" THEN RParen ELSE RAngle

\* The fields a body spells up to its trailing comma, None where a comma
\* stands at another place than between two fields or at the end.
BodyFields(body) ==
    CASE body = "" -> Some(<<>>)
      [] body \in {"a INT", "a INT,"} -> Some(<<<<Plain("a"), Integer, TRUE>>>>)
      [] body \in {"a INT, b VARCHAR NOT NULL", "a INT, b VARCHAR NOT NULL,"} ->
           Some(<<<<Plain("a"), Integer, TRUE>>, <<Plain("b"), Varchar(None), FALSE>>>>)
      [] OTHER -> None

\* A type starts with ( on the Postgres family and Generic only.
InitStructList ==
    /\ op = "idle"
    /\ ret = <<>>
    /\ NoSemaphore
    /\ NoQueryCtx
    /\ backend \in Backends
    /\ \E opener \in StructOpeners, body \in StructBodies, closer \in StructClosers :
          /\ opener = "(" => backend \in PostgresLike \cup {"Generic"}
          /\ arg = opener \o body \o TokenDisplay(closer)
          /\ shape = [family |-> "struct_list", opener |-> opener, body |-> body,
                      closer |-> closer]

SpecStructList == InitStructList /\ [][CallParse]_vars

\* C30: struct_fields returns the empty list only when the closer follows
\* the opener at once, giving Struct(Some(<<>>)) and not Struct(None);
\* it rejects with Unexpected a comma that the closer follows at once, a
\* comma at any other place than between two fields, and a closer that is
\* not the one of the opener.
C30_StrictlyCommaSeparated ==
    (shape.family = "struct_list" /\ op = "parse") =>
        IF shape.closer # CloserOf(shape.opener) /\ IsSome(BodyFields(shape.body))
        THEN ~ret.ok /\ ret.err = Unexpected(shape.closer)
        ELSE IF ~IsSome(BodyFields(shape.body))
        THEN ~ret.ok /\ ret.err = Unexpected(Comma)
        ELSE IF shape.body \in TrailingCommaBodies
        THEN ~ret.ok /\ ret.err[1] = "Unexpected"
        ELSE /\ ret.ok
             /\ ret.ty = Struct(BodyFields(shape.body))
             /\ ret.ty # Struct(None)
             /\ (Unwrap(ret.ty.fields) = <<>>) <=> (shape.body = "")

\* STRUCT<a INT,>: after the comma the > ends the list, and the struct of
\* the one field is returned.
C30_TrailingCommaAccepted ==
    /\ shape.family = "struct_list"
    /\ op = "parse"
    /\ arg = "STRUCT<a INT,>"
    /\ ret.ok
    /\ ret.ty = Struct(Some(<<<<Plain("a"), Integer, TRUE>>>>))
    /\ ret.rest = <<>>

\* What holds: the claim but for the trailing comma, which is accepted.
C30_ExceptTrailingComma ==
    (shape.family = "struct_list" /\ op = "parse") =>
        IF shape.closer # CloserOf(shape.opener) /\ IsSome(BodyFields(shape.body))
        THEN ~ret.ok /\ ret.err = Unexpected(shape.closer)
        ELSE IF ~IsSome(BodyFields(shape.body))
        THEN ~ret.ok /\ ret.err = Unexpected(Comma)
        ELSE /\ ret.ok
             /\ ret.ty = Struct(BodyFields(shape.body))
             /\ (Unwrap(ret.ty.fields) = <<>>) <=> (shape.body = "")

(***************************************************************************)
(* Every family of inputs, and every call                                  *)
(***************************************************************************)
Init ==
    \/ InitTypeString
    \/ InitTrailing
    \/ InitOther
    \/ InitStruct
    \/ InitInterval
    \/ InitMatrix
    \/ InitField
    \/ InitToField
    \/ InitTimeZone
    \/ InitTimestamp
    \/ InitSemaphore
    \/ InitAcquireAll
    \/ InitWake
    \/ InitQueryCtx
    \/ InitTime
    \/ InitDecorated
    \/ InitIntervalPair
    \/ InitPostfix
    \/ InitLeadingToken
    \/ InitIntervalTo
    \/ InitArrowField
    \/ InitTimestampPair
    \/ InitStructList

Next ==
    \/ CallParse
    \/ CallToString
    \/ CallParseRendered
    \/ CallFromField
    \/ CallToField
    \/ CallIsWithTimeZone
    \/ NextSemaphore
    \/ NextAcquireAll
    \/ NextWake
    \/ NextExpand
    \/ CallWithNodeId
    \/ CallWithSql
    \/ CallWithDesc
    \/ CallWithPhase
    \/ CallParsePair
    \/ CallToStringPair
    \/ CallParseRenderedPair
    \/ CallToStringBoth
    \/ CallIsWithTimeZoneBoth

Spec == Init /\ [][Next]_vars

====
